---- MODULE Spec2Model ----
(***************************************************************************)
(* A model of the trading-checklist dashboard: the client data shim        *)
(* (lib/stock-api.ts), the server quote route (api/stock/[symbol]), the    *)
(* rule-based recommendation generators, the TradingChecklist page state   *)
(* with its auto-refresh timer, the market-hours clock and the sentiment   *)
(* badge.                                                                  *)
(*                                                                         *)
(* Numbers.  JavaScript numbers are modelled by integers in fixed units:   *)
(* prices in cents, percentages and volatilities in hundredths of a        *)
(* percent, ratios (pop, creditRatio, modelScore) in hundredths.           *)
(* Math.random() is a draw r from 0..RandSteps-1 standing for r/RandSteps  *)
(* in [0, 1).                                                              *)
(***************************************************************************)
EXTENDS Integers, Sequences, FiniteSets, Bags, TLC

VARIABLES
    \* ---- recommendation generators (lib/stock-api.ts) ----
    recoFn,         \* which generator this run applies: "trade" or "option"
    tradeCalled,    \* generateTradeRecommendations has been applied
    tradeArgs,      \* its arguments at the last application
    trades,         \* its result
    optCalled,      \* generateOptionRecommendations has been applied
    optArgs,        \* its arguments at the last application
    optRecs         \* its result

VARIABLES
    \* ---- getMarketHours (lib/stock-api.ts) ----
    hoursNow,       \* new Date(): the instant, in minutes since Sunday 00:00 UTC
    hoursZone,      \* the America/New_York offset in force: "EST" or "EDT"
    hoursLocalGap,  \* a wall-clock hour the runtime's own time zone skips, if any
    hoursCalled,    \* getMarketHours has been applied
    marketHours     \* its result

VARIABLES
    \* ---- MarketSentiment (components/market-sentiment.tsx) ----
    sentStock,      \* the stockData prop: <<>> for null, <<record>> otherwise
    sentTech,       \* the technicalData prop: <<>> for null, <<record>> otherwise
    sentCalled,     \* calculateSentiment has been applied
    sentResult      \* its result

VARIABLES
    \* ---- the client data shim (lib/stock-api.ts) ----
    fetchFn,        \* the function this run applies: "stock", "volatility", "technical"
    fetchSymbol,    \* its symbol argument
    fetchNet,       \* what the network does with its request
    fetchNow,       \* Date.now()
    fetchDraws,     \* the Math.random() draws of each call made, in call order
    fetchResults    \* the outcome of each call made, in call order

VARIABLES
    \* ---- the quote route (app/api/stock/[symbol]/route.ts) ----
    routePc,        \* where the handler is: "start", "today", "yesterday", "quote",
                    \* "trade", "done"
    routeParam,     \* params.symbol
    routeCreds,     \* both Alpaca credentials are configured
    routeNow,       \* Date.now()
    routeLog,       \* the kind of each broker request's outcome, "none" if not made
    routeData,      \* todayBarData, yesterdayBarData and quoteData once received
    routeResponse   \* the response returned

VARIABLES
    \* ---- TradingChecklist (app/page.tsx) and RealTimeStatus ----
    selectedSymbol, stockData, technicalData, loading, error, lastUpdate,
    autoRefresh, isConnected,   \* the page's useState cells
    timers,         \* the interval timers set and not cleared
    inflight,       \* the handleSymbolSelect calls awaiting their fetches
    refreshing,     \* RealTimeStatus: the refresh button is disabled
    refreshTimeout, \* RealTimeStatus: the timeout that re-enables it is pending
    pageNow         \* new Date(), in minutes since Sunday 00:00 UTC

VARIABLES
    \* ---- the indicator calculators (lib/stock-api.ts) ----
    calcFn,         \* the calculator this run applies
    calcPrices,     \* its prices argument
    calcBars,       \* the bars its highs, lows, closes, volumes arguments come from
    calcPeriod,     \* its period (or days) argument
    calcCalled,     \* the calculator has been applied
    calcResult      \* the number it returned

VARIABLES
    \* ---- AlertsNotificationSystem (components/alerts-notification-system.tsx) ----
    alerts,          \* the alerts state: a sequence of alert records
    triggeredAlerts, \* the triggeredAlerts state, newest first
    alertData,       \* the stockData / technicalData props: [price, rsi]
    alertPrev,       \* the props before the latest change: <<>> or <<[price, rsi]>>
    alertEffect,     \* the checkAlerts effect is due (a dependency changed)
    alertNextId      \* stands for Date.now() in createAlert

VARIABLES
    \* ---- Notifications (components/notifications.tsx) ----
    notifications,  \* the notifications state: a sequence of notification records
    notifStock,     \* the stockData prop: <<>> for null, <<record>> otherwise
    notifTech,      \* the technicalData prop: <<>> for null, <<record>> otherwise
    notifEnabled,   \* the enabled prop
    notifDismissed  \* the ids passed to dismissNotification, oldest first

VARIABLES
    \* ---- WatchlistManager (components/watchlist-manager.tsx) ----
    watchlists,      \* the watchlists state: a sequence of watchlist records
    activeWatchlist, \* the activeWatchlist state: a watchlist id
    watchNow,        \* Date.now() at the latest reading
    watchCall        \* the latest handler call: <<>> or <<[op, arg, active]>>

recoVars == <<recoFn, tradeCalled, tradeArgs, trades, optCalled, optArgs, optRecs>>
hoursVars == <<hoursNow, hoursZone, hoursLocalGap, hoursCalled, marketHours>>
sentVars == <<sentStock, sentTech, sentCalled, sentResult>>

fetchVars == <<fetchFn, fetchSymbol, fetchNet, fetchNow, fetchDraws, fetchResults>>

routeVars == <<routePc, routeParam, routeCreds, routeNow, routeLog, routeData, routeResponse>>

pageVars == <<selectedSymbol, stockData, technicalData, loading, error, lastUpdate,
              autoRefresh, isConnected, timers, inflight, refreshing, refreshTimeout,
              pageNow>>

calcVars == <<calcFn, calcPrices, calcBars, calcPeriod, calcCalled, calcResult>>

alertVars == <<alerts, triggeredAlerts, alertData, alertPrev, alertEffect, alertNextId>>

notifVars == <<notifications, notifStock, notifTech, notifEnabled, notifDismissed>>

watchVars == <<watchlists, activeWatchlist, watchNow, watchCall>>

vars == <<recoVars, hoursVars, sentVars, fetchVars, routeVars,
         pageVars, calcVars, alertVars, notifVars, watchVars>>

\* What each component's actions leave alone: the other components' state.

exceptReco ==
    <<hoursVars, sentVars, fetchVars, routeVars, pageVars,
      calcVars, alertVars, notifVars, watchVars>>

exceptHours ==
    <<recoVars, sentVars, fetchVars, routeVars, pageVars,
      calcVars, alertVars, notifVars, watchVars>>

exceptSent ==
    <<recoVars, hoursVars, fetchVars, routeVars, pageVars,
      calcVars, alertVars, notifVars, watchVars>>

exceptFetch ==
    <<recoVars, hoursVars, sentVars, routeVars, pageVars,
      calcVars, alertVars, notifVars, watchVars>>

exceptRoute ==
    <<recoVars, hoursVars, sentVars, fetchVars, pageVars,
      calcVars, alertVars, notifVars, watchVars>>

exceptPage ==
    <<recoVars, hoursVars, sentVars, fetchVars, routeVars,
      calcVars, alertVars, notifVars, watchVars>>

exceptCalc ==
    <<recoVars, hoursVars, sentVars, fetchVars, routeVars,
      pageVars, alertVars, notifVars, watchVars>>

exceptAlert ==
    <<recoVars, hoursVars, sentVars, fetchVars, routeVars,
      pageVars, calcVars, notifVars, watchVars>>

exceptNotif ==
    <<recoVars, hoursVars, sentVars, fetchVars, routeVars,
      pageVars, calcVars, alertVars, watchVars>>

exceptWatch ==
    <<recoVars, hoursVars, sentVars, fetchVars, routeVars,
      pageVars, calcVars, alertVars, notifVars>>

(***************************************************************************)
(* Arithmetic helpers                                                      *)
(***************************************************************************)

\* Math.round(n / d) for n >= 0, d > 0: round half up.
RoundDiv(n, d) == (2 * n + d) \div (2 * d)

\* The first n elements of s: Array.prototype.slice(0, n).
SliceTo(s, n) == IF Len(s) <= n THEN s ELSE SubSeq(s, 1, n)

MaxTrades == 5
MaxOptionRecs == 5

(***************************************************************************)
(* generateTradeRecommendations                                            *)
(***************************************************************************)

\* The three templates; strikes are whole dollars, Math.round of a price in
\* cents scaled by the template's factor in percent.
Strike(price, pct) == RoundDiv(price * pct, 10000)

BullCallSpread(symbol, price) ==
    [ticker |-> symbol, strategy |-> "Bull Call Spread",
     legs |-> <<Strike(price, 100), Strike(price, 105)>>,
     pop |-> 72, maxLoss |-> 250, creditRatio |-> 40, modelScore |-> 85,
     sector |-> "Technology"]

CashSecuredPut(symbol, price) ==
    [ticker |-> symbol, strategy |-> "Cash Secured Put",
     legs |-> <<Strike(price, 95)>>,
     pop |-> 68, maxLoss |-> 480, creditRatio |-> 35, modelScore |-> 78,
     sector |-> "Technology"]

IronCondorTrade(symbol, price) ==
    [ticker |-> symbol, strategy |-> "Iron Condor",
     legs |-> <<Strike(price, 98), Strike(price, 102), Strike(price, 95), Strike(price, 105)>>,
     pop |-> 65, maxLoss |-> 350, creditRatio |-> 42, modelScore |-> 71,
     sector |-> "Technology"]

\* Mutant: the overbought bound of the Bull Call Spread rule made inclusive.
BullCallCond_Inclusive(a) ==
    a.rsi <= 7000 /\ a.socialSentiment > 0 /\ a.changePercent > 0

BullCallCond(a) ==
    a.rsi < 7000 /\ a.socialSentiment > 0 /\ a.changePercent > 0

CashSecuredCond(a) ==
    a.rsi > 3000 /\ a.ivPercentile > 5000 /\ a.analystRating > 300

IronCondorCond(a) ==
    a.adx < 2500 /\ a.ivPercentile > 6000

generateTradeRecommendations(a) ==
    LET t1 == IF BullCallCond(a) THEN <<BullCallSpread(a.symbol, a.price)>> ELSE <<>>
        t2 == IF CashSecuredCond(a) THEN <<CashSecuredPut(a.symbol, a.price)>> ELSE <<>>
        t3 == IF IronCondorCond(a) THEN <<IronCondorTrade(a.symbol, a.price)>> ELSE <<>>
    IN  SliceTo(t1 \o t2 \o t3, MaxTrades)

\* Argument values on both sides of every threshold the rules read.
TradeSymbols == {"AAPL", "tsla"}
TradeArgSet ==
    [symbol : TradeSymbols,
     price : {15049, 30050},
     changePercent : {-125, 0, 125},
     rsi : {3000, 3001, 6999, 7000},
     adx : {2499, 2500},
     ivPercentile : {5000, 5001, 6000, 6001},
     socialSentiment : {-50, 0, 50},
     analystRating : {300, 301}]

NoTradeArgs ==
    [symbol |-> "AAPL", price |-> 15049, changePercent |-> 0, rsi |-> 3000,
     adx |-> 2500, ivPercentile |-> 5000, socialSentiment |-> 0, analystRating |-> 300]

(***************************************************************************)
(* generateOptionRecommendations                                           *)
(***************************************************************************)

\* toFixed(1) of a volatility in hundredths of a percent, in tenths.
ToFixed1(v) == RoundDiv(v, 10)
\* toFixed(0) of pct percent of a price in cents, in dollars.
ToFixed0(price, pct) == RoundDiv(price * pct, 10000)

ShortStraddle(v, m, price) ==
    [strategy |-> "Short Straddle", description |-> <<>>,
     reasoning |-> <<ToFixed1(v.oneMonth)>>, expectedMove |-> m.oneMonth,
     timeframe |-> "30-45 days", riskLevel |-> "High", profitPotential |-> "High"]

IronCondorOption(v, m, price) ==
    [strategy |-> "Iron Condor",
     description |-> <<ToFixed0(price, 97), ToFixed0(price, 103)>>,
     reasoning |-> <<>>, expectedMove |-> m.oneMonth,
     timeframe |-> "30-45 days", riskLevel |-> "Medium", profitPotential |-> "Medium"]

LongStraddle(v, m, price) ==
    [strategy |-> "Long Straddle", description |-> <<>>,
     reasoning |-> <<ToFixed1(v.oneMonth)>>, expectedMove |-> m.oneMonth,
     timeframe |-> "30-45 days", riskLevel |-> "Medium", profitPotential |-> "High"]

CalendarSpread(v, m, price) ==
    [strategy |-> "Calendar Spread", description |-> <<>>,
     reasoning |-> <<>>, expectedMove |-> m.oneWeek,
     timeframe |-> "2-4 weeks", riskLevel |-> "Low", profitPotential |-> "Medium"]

CashSecuredPutOption(v, m, price) ==
    [strategy |-> "Cash-Secured Put",
     description |-> <<ToFixed0(price, 95)>>,
     reasoning |-> <<>>, expectedMove |-> m.oneMonth,
     timeframe |-> "30-45 days", riskLevel |-> "Low", profitPotential |-> "Low"]

\* Mutant: the low-volatility rule reads the high-volatility threshold.
LowVolCond_Overlapping(v) == v.oneMonth < 4000

HighVolCond(v) == v.oneMonth > 3000
LowVolCond(v) == v.oneMonth < 2000
\* oneWeek > threeMonths * 1.2, in exact arithmetic
SpikeCond(v) == 10 * v.oneWeek > 12 * v.threeMonths

generateOptionRecommendations(v, m, price) ==
    LET r1 == IF HighVolCond(v)
              THEN <<ShortStraddle(v, m, price), IronCondorOption(v, m, price)>>
              ELSE <<>>
        r2 == IF LowVolCond(v) THEN <<LongStraddle(v, m, price)>> ELSE <<>>
        r3 == IF SpikeCond(v) THEN <<CalendarSpread(v, m, price)>> ELSE <<>>
        r4 == <<CashSecuredPutOption(v, m, price)>>
    IN  SliceTo(r1 \o r2 \o r3 \o r4, MaxOptionRecs)

\* averageMoves as generateMockVolatilityData derives them: vol * price / 100,
\* in cents.
AverageMove(vol, price) == (vol * price) \div 10000

VolSet ==
    [oneDay : {900}, oneWeek : {1200, 2400, 2401, 4000},
     oneMonth : {1999, 2000, 3000, 3001}, threeMonths : {1000, 2000},
     sixMonths : {2500}]

OptPriceSet == {10050, 25000}

NoOptArgs ==
    [v |-> [oneDay |-> 900, oneWeek |-> 1200, oneMonth |-> 2000,
            threeMonths |-> 1000, sixMonths |-> 2500],
     m |-> [oneDay |-> 0, oneWeek |-> 0, oneMonth |-> 0, threeMonths |-> 0, sixMonths |-> 0],
     price |-> 10050]

MovesOf(v, price) ==
    [oneDay |-> AverageMove(v.oneDay, price), oneWeek |-> AverageMove(v.oneWeek, price),
     oneMonth |-> AverageMove(v.oneMonth, price),
     threeMonths |-> AverageMove(v.threeMonths, price),
     sixMonths |-> AverageMove(v.sixMonths, price)]

OptArgSet == {[v |-> v, m |-> MovesOf(v, price), price |-> price] :
                 v \in VolSet, price \in OptPriceSet}

RecoIdle ==
    /\ recoFn = "none"
    /\ tradeCalled = FALSE
    /\ tradeArgs = NoTradeArgs
    /\ trades = <<>>
    /\ optCalled = FALSE
    /\ optArgs = NoOptArgs
    /\ optRecs = <<>>


(***************************************************************************)
(* getMarketHours                                                          *)
(***************************************************************************)

MinutesPerDay == 24 * 60
MinutesPerWeek == 7 * MinutesPerDay

\* The America/New_York offset from UTC, in minutes.
NyOffset(zone) == IF zone = "EST" THEN -(5 * 60) ELSE -(4 * 60)

\* now.toLocaleString("en-US", {timeZone: "America/New_York"}): the New York
\* wall clock as the fields of "M/D/YYYY, h:mm:ss AM/PM" (the date stands
\* for its day of the week, 0 = Sunday; the hour is on the 12-hour clock).
toLocaleString(now, zone) ==
    LET w == (now + NyOffset(zone) + MinutesPerWeek) % MinutesPerWeek
        h24 == (w % MinutesPerDay) \div 60
    IN  [day |-> w \div MinutesPerDay,
         hour12 |-> IF h24 % 12 = 0 THEN 12 ELSE h24 % 12,
         minute |-> w % 60,
         pm |-> h24 >= 12]

\* new Date(string): the fields read as a wall clock of the runtime's own
\* time zone, as minutes since Sunday 00:00.  A wall-clock time inside an
\* hour that zone skips (gap = <<start>>) resolves one hour later.
ParseLocal(f, gap) ==
    LET h24 == (f.hour12 % 12) + (IF f.pm THEN 12 ELSE 0)
        w == f.day * MinutesPerDay + h24 * 60 + f.minute
    IN  IF gap # <<>> /\ w >= gap[1] /\ w < gap[1] + 60
        THEN (w + 60) % MinutesPerWeek
        ELSE w

\* Mutant: the closing minute counted as open.
IsOpenAt_CloseInclusive(day, currentTime) ==
    day >= 1 /\ day <= 5 /\ currentTime >= 9 * 60 + 30 /\ currentTime <= 16 * 60

\* isWeekday && currentTime >= marketOpen && currentTime < marketClose
IsOpenAt(day, currentTime) ==
    LET marketOpen == 9 * 60 + 30
        marketClose == 16 * 60
        isWeekday == day >= 1 /\ day <= 5
    IN  isWeekday /\ currentTime >= marketOpen /\ currentTime < marketClose

getMarketHours(now, zone, gap) ==
    LET easternTime == ParseLocal(toLocaleString(now, zone), gap)
        hours == (easternTime % MinutesPerDay) \div 60
        minutes == easternTime % 60
        currentTime == hours * 60 + minutes
    IN  [isOpen |-> IsOpenAt(easternTime \div MinutesPerDay, currentTime),
         nextOpen |-> "09:30 EST",
         nextClose |-> "16:00 EST",
         timezone |-> "EST"]

\* Hours a runtime time zone may skip at a daylight-saving change: none,
\* Sunday 02:00-03:00, or Friday 00:00-01:00.
LocalGaps == {<<>>, <<2 * 60>>, <<5 * MinutesPerDay>>}

NoMarketHours ==
    [isOpen |-> FALSE, nextOpen |-> "", nextClose |-> "", timezone |-> ""]

HoursIdle ==
    /\ hoursNow = 0
    /\ hoursZone = "EST"
    /\ hoursLocalGap = <<>>
    /\ hoursCalled = FALSE
    /\ marketHours = NoMarketHours

(***************************************************************************)
(* MarketSentiment.calculateSentiment                                      *)
(*                                                                         *)
(* A property that may be undefined is <<>> when undefined and <<x>> when  *)
(* it holds the number x.  The TechnicalIndicators objects the page passes *)
(* have no sma20, ema12, macd or macdSignal property.                      *)
(***************************************************************************)

\* a > b in JavaScript: false when either side is undefined.
JsGt(a, b) == a # <<>> /\ b # <<>> /\ a[1] > b[1]

\* Mutant: the RSI signal counted whatever the RSI is.
RsiCounted_Always(tech) == TRUE

\* technicalData.rsi < 70 && technicalData.rsi > 30
RsiCounted(tech) == tech.rsi < 7000 /\ tech.rsi > 3000

B2N(b) == IF b THEN 1 ELSE 0

bullishSignals(stock, tech) ==
      B2N(stock.change > 0)
    + B2N(RsiCounted(tech) /\ tech.rsi > 5000)
    + B2N(JsGt(<<stock.price>>, tech.sma20))
    + B2N(JsGt(<<stock.price>>, tech.ema12))
    + B2N(JsGt(tech.macd, tech.macdSignal))

totalSignals(stock, tech) == 1 + B2N(RsiCounted(tech)) + 1 + 1 + 1

calculateSentiment(sData, tData) ==
    IF sData = <<>> \/ tData = <<>>
    THEN [sentiment |-> "neutral", score |-> 50, label |-> "Neutral"]
    ELSE LET b == bullishSignals(sData[1], tData[1])
             t == totalSignals(sData[1], tData[1])
             score == IF t > 0 THEN RoundDiv(b * 100, t) ELSE 50
         IN  IF score >= 65 THEN [sentiment |-> "bullish", score |-> score, label |-> "Bullish"]
             ELSE IF score <= 35
                  THEN [sentiment |-> "bearish", score |-> score, label |-> "Bearish"]
                  ELSE [sentiment |-> "neutral", score |-> score, label |-> "Neutral"]

\* The props: null or an object.  The technical objects fetchTechnicalIndicators
\* builds leave the four extra properties undefined; objects that define them
\* are drawn as well, since the component reads them.
SentStockSet ==
    {<<>>} \cup {<<s>> : s \in [change : {-120, 0, 120}, price : {15000, 20000}]}

SentTechSet ==
    {<<>>} \cup
    {<<t>> : t \in [rsi : {3000, 3001, 5000, 5001, 6999, 7000},
                    sma20 : {<<>>, <<17500>>},
                    ema12 : {<<>>, <<17500>>},
                    macd : {<<>>, <<10>>},
                    macdSignal : {<<>>, <<5>>, <<10>>}]}

NoSentiment == [sentiment |-> "", score |-> 0, label |-> ""]

SentIdle ==
    /\ sentStock = <<>>
    /\ sentTech = <<>>
    /\ sentCalled = FALSE
    /\ sentResult = NoSentiment

(***************************************************************************)
(* The client data shim: fetchStockData, fetchHistoricalVolatility,        *)
(* fetchTechnicalIndicators                                                *)
(*                                                                         *)
(* A string that is upper-cased is a sequence of characters.  A JSON value *)
(* is <<>> for null and <<object>> for an object; an optional property is  *)
(* <<>> when absent.  A promise's outcome is [state, value].               *)
(***************************************************************************)

\* The grid Math.random() is drawn from: r stands for r / RandSteps.
RandSteps == 2
Rand == 0..(RandSteps - 1)

\* String.prototype.toUpperCase
UpperChar(c) ==
    CASE c = "a" -> "A" [] c = "p" -> "P" [] c = "l" -> "L"
      [] c = "t" -> "T" [] c = "s" -> "S" [] OTHER -> c

toUpperCase(s) == [i \in 1..Len(s) |-> UpperChar(s[i])]

\* A truthy property value: present and not the empty string.
Truthy(p) == p # <<>> /\ p[1] # ""

\* What the network does with one request: fetch() rejects, or resolves to a
\* response with a status (ok or not) and a body that parses as JSON or not.
NetThrows == [kind |-> "throws", ok |-> FALSE, parses |-> FALSE, json |-> <<>>]
NetResponses(bodies) ==
    [kind : {"response"}, ok : BOOLEAN, parses : BOOLEAN, json : bodies]
NetSet(bodies) == {NetThrows} \cup NetResponses(bodies)

\* The try block up to `return data`: [threw, value].  checkError says
\* whether the function inspects data.error (fetchStockData does).
TryFetch(net, checkError) ==
    IF net.kind = "throws" THEN [threw |-> TRUE, value |-> <<>>]      \* await fetch
    ELSE IF ~net.ok THEN [threw |-> TRUE, value |-> <<>>]             \* throw new Error(status)
    ELSE IF ~net.parses THEN [threw |-> TRUE, value |-> <<>>]         \* await response.json()
    ELSE IF checkError /\ net.json = <<>> THEN [threw |-> TRUE, value |-> <<>>]  \* null.error
    ELSE IF checkError /\ Truthy(net.json[1].error)
         THEN [threw |-> TRUE, value |-> <<>>]                        \* throw new Error(data.error)
    ELSE [threw |-> FALSE, value |-> net.json]

\* Mutant: the fallback quote keeps the symbol as given.
FallbackSymbol_AsGiven(symbol) == symbol

FallbackSymbol(symbol) == toUpperCase(symbol)

\* generateFallbackStockData; r[1..7] are its Math.random() draws in source
\* order.  marketCap is in millions of dollars.
generateFallbackStockData(symbol, r, now) ==
    LET basePrice == 15000 + (30000 * r[1]) \div RandSteps
        changePercent == (1000 * r[2]) \div RandSteps - 500
        change == (basePrice * changePercent) \div 10000
        previousClose == basePrice - change
    IN  [symbol |-> FallbackSymbol(symbol),
         price |-> basePrice,
         change |-> change,
         changePercent |-> changePercent,
         volume |-> (10000000 * r[3]) \div RandSteps + 1000000,
         high |-> basePrice + (1000 * r[4]) \div RandSteps,
         low |-> basePrice - (1000 * r[5]) \div RandSteps,
         open |-> previousClose + (500 * r[6]) \div RandSteps - 250,
         previousClose |-> previousClose,
         marketCap |-> <<(1000000 * r[7]) \div RandSteps + 100000>>,
         timestamp |-> now,
         error |-> <<>>]

\* Mutant: the catch block passes the error on (as fetchOptionsData does).
SettleStock_Rethrow(try, fallback) ==
    IF try.threw THEN [state |-> "rejected", value |-> <<>>]
    ELSE [state |-> "fulfilled", value |-> try.value]

\* try { ... return data } catch { return fallback }
SettleStock(try, fallback) ==
    IF try.threw THEN [state |-> "fulfilled", value |-> <<fallback>>]
    ELSE [state |-> "fulfilled", value |-> try.value]

fetchStockData(symbol, net, r, now) ==
    SettleStock(TryFetch(net, TRUE), generateFallbackStockData(symbol, r, now))

\* generateMockVolatilityData; r[1..6] are its Math.random() draws in source
\* order.
ScaleVol(baseVol, lo, span, r) == (baseVol * (lo * RandSteps + span * r)) \div (100 * RandSteps)

generateMockVolatilityData(symbol, r) ==
    LET baseVol == 2000 + (4000 * r[1]) \div RandSteps
        currentPrice == 10000 + (40000 * r[2]) \div RandSteps
        volatilities ==
            [oneDay |-> ScaleVol(baseVol, 30, 40, r[3]),
             oneWeek |-> ScaleVol(baseVol, 60, 30, r[4]),
             oneMonth |-> baseVol,
             threeMonths |-> ScaleVol(baseVol, 80, 40, r[5]),
             sixMonths |-> ScaleVol(baseVol, 90, 30, r[6])]
        averageMoves == MovesOf(volatilities, currentPrice)
    IN  [symbol |-> toUpperCase(symbol),
         timeframes |-> volatilities,
         averageMoves |-> averageMoves,
         currentPrice |-> currentPrice,
         recommendations |->
             generateOptionRecommendations(volatilities, averageMoves, currentPrice),
         error |-> <<>>]

fetchHistoricalVolatility(symbol, net, r) ==
    LET try == TryFetch(net, FALSE)
    IN  IF try.threw
        THEN [state |-> "fulfilled", value |-> <<generateMockVolatilityData(symbol, r)>>]
        ELSE [state |-> "fulfilled", value |-> try.value]

\* One indicator near the price: currentPrice * (lo + Math.random() * span),
\* lo and span in thousandths.
NearPrice(price, lo, span, r) == (price * (lo * RandSteps + span * r)) \div (1000 * RandSteps)

\* The catch block's constants.
DefaultTechnicalIndicators ==
    [rsi |-> 5000, ema9 |-> 20000, ema20 |-> 19500, adx |-> 2500,
     vwap |-> 19800, sma50 |-> 19000, sma200 |-> 18000]

\* fetchTechnicalIndicators: its own fetchStockData call (draws rs), then the
\* draws rt[1..7] in source order: vwap, ema9, ema20, sma50, sma200, rsi, adx.
fetchTechnicalIndicators(symbol, net, rs, rt, now) ==
    LET stock == fetchStockData(symbol, net, rs, now)
    IN  IF stock.state = "rejected" \/ stock.value = <<>>
        THEN [state |-> "fulfilled", value |-> <<DefaultTechnicalIndicators>>]
        ELSE LET currentPrice == stock.value[1].price
             IN  [state |-> "fulfilled",
                  value |-> <<[rsi |-> 4500 + (2000 * rt[6]) \div RandSteps,
                               ema9 |-> NearPrice(currentPrice, 990, 20, rt[2]),
                               ema20 |-> NearPrice(currentPrice, 985, 30, rt[3]),
                               adx |-> 1500 + (2000 * rt[7]) \div RandSteps,
                               vwap |-> NearPrice(currentPrice, 995, 10, rt[1]),
                               sma50 |-> NearPrice(currentPrice, 970, 60, rt[4]),
                               sma200 |-> NearPrice(currentPrice, 900, 200, rt[5])]>>]

\* Inputs.  Symbols as typed or passed on by callers; response bodies the
\* quote route can send (a quote, its 500 error object) and other JSON.
FetchSymbols == {<<"A", "A", "P", "L">>, <<"a", "a", "p", "l">>, <<"T", "s", "l", "a">>}

QuoteBody(symbol, price, previousClose, err) ==
    [symbol |-> symbol, price |-> price, change |-> price - previousClose,
     changePercent |-> ((price - previousClose) * 10000) \div previousClose,
     volume |-> 2500000, high |-> price + 120, low |-> previousClose - 80,
     open |-> previousClose, previousClose |-> previousClose,
     marketCap |-> <<>>, timestamp |-> 1, error |-> err]

ErrorBody == [error |-> <<"Failed to fetch stock data">>]

StockBodies ==
    {<<>>,
     <<QuoteBody(<<"A", "A", "P", "L">>, 23110, 22900, <<>>)>>,
     <<QuoteBody(<<"T", "S", "L", "A">>, 9950, 10050, <<"">>)>>,
     <<ErrorBody>>}

VolBody(symbol, err) ==
    [symbol |-> symbol,
     timeframes |-> [oneDay |-> 800, oneWeek |-> 1500, oneMonth |-> 1800,
                     threeMonths |-> 1000, sixMonths |-> 2100],
     averageMoves |-> [oneDay |-> 80, oneWeek |-> 150, oneMonth |-> 180,
                       threeMonths |-> 100, sixMonths |-> 210],
     currentPrice |-> 10000,
     recommendations |-> <<>>,
     error |-> err]

VolBodies ==
    {<<>>,
     <<VolBody(<<"A", "A", "P", "L">>, <<>>)>>,
     <<VolBody(<<"a", "a", "p", "l">>, <<"stale">>)>>}

FetchClock == {2, 3}
Draws(n) == [1..n -> Rand]

FetchIdle ==
    /\ fetchFn = "none"
    /\ fetchSymbol = <<>>
    /\ fetchNet = NetThrows
    /\ fetchNow = 0
    /\ fetchDraws = <<>>
    /\ fetchResults = <<>>

(***************************************************************************)
(* The quote route GET /api/stock/[symbol]                                 *)
(*                                                                         *)
(* The handler awaits four broker requests in turn: today's bar,           *)
(* yesterday's bar, the latest quote, the latest trade.  A request's       *)
(* outcome is [kind, json]: "throws" (fetch rejects), "status" (a non-OK   *)
(* response), "badjson" (an OK response whose body does not parse) or "ok" *)
(* with the parsed body.  A missing or zero number in a body is falsy.     *)
(***************************************************************************)

Outcome(kind, json) == [kind |-> kind, json |-> json]

Bar(o, h, l, c) == [o |-> o, h |-> h, l |-> l, c |-> c]

TodayBarOutcomes ==
    {Outcome("throws", <<>>), Outcome("status", <<>>), Outcome("badjson", <<>>),
     Outcome("ok", <<>>),
     Outcome("ok", <<Bar(22950, 23200, 22800, 23100)>>)}

YesterdayBarOutcomes ==
    {Outcome("throws", <<>>), Outcome("status", <<>>), Outcome("badjson", <<>>),
     Outcome("ok", <<>>),
     Outcome("ok", <<Bar(22750, 23050, 22700, 22900)>>)}

QuoteOutcomes ==
    {Outcome("throws", [ap |-> 0, bp |-> 0]), Outcome("status", [ap |-> 0, bp |-> 0]),
     Outcome("badjson", [ap |-> 0, bp |-> 0]),
     Outcome("ok", [ap |-> 23120, bp |-> 23100]),
     Outcome("ok", [ap |-> 23120, bp |-> 0]),
     Outcome("ok", [ap |-> 0, bp |-> 0])}

TradeOutcomes ==
    {Outcome("throws", [p |-> 0, s |-> 0]), Outcome("status", [p |-> 0, s |-> 0]),
     Outcome("badjson", [p |-> 0, s |-> 0]),
     Outcome("ok", [p |-> 23110, s |-> 300]),
     Outcome("ok", [p |-> 0, s |-> 0])}

\* await fetch(...) or await response.json() rejects: control goes to the
\* inner catch.
Throws(out) == out.kind \in {"throws", "badjson"}

\* response.ok ? await response.json() : null, for the bar requests: the
\* bars array (empty when the body is null or has no bars).
BarsOf(out) == IF out.kind = "ok" THEN out.json ELSE <<>>

\* tradeResponse.ok ? await tradeResponse.json() : null
TradeOf(out) == IF out.kind = "ok" THEN out.json ELSE [p |-> 0, s |-> 0]

Max2(a, b) == IF a >= b THEN a ELSE b
Min2(a, b) == IF a <= b THEN a ELSE b

\* The mock quote of the inner catch block; r[1..7] are its draws in source
\* order: basePrice, changePercent, dayOpen, dayHigh, dayLow, volume, marketCap.
MockQuote(symbol, r, now) ==
    LET basePrice == 15000 + (30000 * r[1]) \div RandSteps
        changePercent == (1000 * r[2]) \div RandSteps - 500
        change == (basePrice * changePercent) \div 10000
        previousClose == basePrice - change
        dayOpen == previousClose + ((2 * r[3] - RandSteps) * basePrice) \div (100 * RandSteps)
        dayHigh == Max2(basePrice, dayOpen) + (r[4] * basePrice * 15) \div (1000 * RandSteps)
        dayLow == Min2(basePrice, dayOpen) - (r[5] * basePrice * 15) \div (1000 * RandSteps)
    IN  [symbol |-> symbol,
         price |-> basePrice,
         change |-> change,
         changePercent |-> changePercent,
         volume |-> (10000000 * r[6]) \div RandSteps + 1000000,
         high |-> dayHigh,
         low |-> dayLow,
         open |-> dayOpen,
         previousClose |-> previousClose,
         marketCap |-> <<(1000000 * r[7]) \div RandSteps + 100000>>,
         timestamp |-> now,
         error |-> <<>>]

\* The quote assembled from the broker's answers; r[1], r[2] are the draws of
\* the estimated previous close and the estimated volume.
RealQuote(symbol, todayBars, yesterdayBars, quote, trade, r, now) ==
    LET currentPrice ==
            IF trade.p # 0 THEN trade.p
            ELSE IF quote.ap # 0 /\ quote.bp # 0 THEN (quote.ap + quote.bp) \div 2
            ELSE IF quote.ap # 0 THEN quote.ap
            ELSE 0
        y == yesterdayBars[1]
        spread == (currentPrice * (y.h - y.l) * 3) \div (y.c * 10)
        dayOpen ==
            IF todayBars # <<>> THEN todayBars[1].o
            ELSE IF yesterdayBars # <<>> THEN y.c ELSE currentPrice
        dayHigh ==
            IF todayBars # <<>> THEN todayBars[1].h
            ELSE IF yesterdayBars # <<>> THEN Max2(currentPrice, dayOpen) + spread
            ELSE currentPrice
        dayLow ==
            IF todayBars # <<>> THEN todayBars[1].l
            ELSE IF yesterdayBars # <<>> THEN Min2(currentPrice, dayOpen) - spread
            ELSE currentPrice
        previousClose ==
            IF yesterdayBars # <<>> THEN y.c
            ELSE (currentPrice * (98 * RandSteps + 4 * r[1])) \div (100 * RandSteps)
        change == currentPrice - previousClose
    IN  [symbol |-> symbol,
         price |-> currentPrice,
         change |-> change,
         changePercent |-> IF previousClose > 0 THEN (change * 10000) \div previousClose ELSE 0,
         volume |-> IF trade.s # 0 THEN trade.s
                    ELSE (5000000 * r[2]) \div RandSteps + 1000000,
         high |-> dayHigh,
         low |-> dayLow,
         open |-> dayOpen,
         previousClose |-> previousClose,
         marketCap |-> <<>>,
         timestamp |-> now,
         error |-> <<>>]

\* The three return statements: the assembled quote, the inner catch's mock,
\* the outer catch's error.
RespondReal(body) == [status |-> 200, branch |-> "real", body |-> <<body>>]
RespondMock(body) == [status |-> 200, branch |-> "mock", body |-> <<body>>]
RespondError == [status |-> 500, branch |-> "error", body |-> <<ErrorBody>>]

NoResponse == [status |-> 0, branch |-> "none", body |-> <<>>]
NoLog == [today |-> "none", yesterday |-> "none", quote |-> "none", trade |-> "none"]
NoData == [today |-> <<>>, yesterday |-> <<>>, quote |-> [ap |-> 0, bp |-> 0]]

RouteIdle ==
    /\ routePc = "idle"
    /\ routeParam = <<>>
    /\ routeCreds = FALSE
    /\ routeNow = 0
    /\ routeLog = NoLog
    /\ routeData = NoData
    /\ routeResponse = NoResponse

\* Mutant: the inner catch answers like the outer one.
CatchResponse_Error(body) == RespondError

\* catch (alpacaError) { ... return NextResponse.json(mockStockData, { headers }) }
CatchResponse(body) == RespondMock(body)

\* Mutant: a non-OK latest-quote response is tolerated like the other three.
QuoteFails_OnlyThrows(out) == Throws(out)

\* The latest-quote request sends control to the inner catch when it rejects
\* and also when its status is not OK.
QuoteFails(out) == Throws(out) \/ out.kind = "status"

(***************************************************************************)
(* The TradingChecklist page (app/page.tsx) with the RealTimeStatus card's *)
(* refresh button (components/real-time-status.tsx)                        *)
(*                                                                         *)
(* null is <<>>.  An interval timer is [symbol, interval]: the symbol its   *)
(* callback closed over and its period in milliseconds.  A call of         *)
(* handleSymbolSelect that awaits its two fetches is [symbol, origin]; the  *)
(* pending calls are a bag, since they settle in any order.                *)
(***************************************************************************)

\* The symbols the search box and the popular buttons pass on (upper case).
PageSymbols == {<<"A", "A", "P", "L">>, <<"T", "S", "L", "A">>}

\* Instants the page is observed at, in minutes since Sunday 00:00 UTC:
\* Monday 12:00 and Monday 20:00 New York standard time.
PageInstants == {MinutesPerDay + 17 * 60, 2 * MinutesPerDay + 60}

MarketOpenAt(now) == getMarketHours(now, "EST", <<>>).isOpen

\* const interval = marketHours.isOpen ? 15000 : 60000
RefreshInterval(now) == IF MarketOpenAt(now) THEN 15000 ELSE 60000

\* Mutant: the effect returns no cleanup, so the previous timer keeps running.
EffectTimers_NoCleanup(old, symbol, auto, now) ==
    IF symbol = <<>> \/ ~auto THEN old
    ELSE Append(old, [symbol |-> symbol, interval |-> RefreshInterval(now)])

\* The auto-refresh effect re-run for new dependencies: the previous run's
\* cleanup clears its timer, then a timer is set unless no symbol is selected
\* or auto-refresh is off.
EffectTimers(old, symbol, auto, now) ==
    IF symbol = <<>> \/ ~auto THEN <<>>
    ELSE <<[symbol |-> symbol, interval |-> RefreshInterval(now)]>>

\* The timers after a render: the effect runs only when a dependency changed.
TimersAfter(old, symbol, auto, symbol2, auto2, now) ==
    IF symbol2 = symbol /\ auto2 = auto THEN old
    ELSE EffectTimers(old, symbol2, auto2, now)

\* Mutant: handleManualRefresh without its test of selectedSymbol.
ManualRefreshFetches_Always(symbol) == TRUE

\* if (selectedSymbol) { await handleSymbolSelect(selectedSymbol) }
ManualRefreshFetches(symbol) == symbol # <<>>

\* What the network does with a request of the page's fetches: it fails, or
\* the quote route answers with a quote for the symbol.
PageNets(symbol) ==
    {NetThrows,
     [kind |-> "response", ok |-> TRUE, parses |-> TRUE,
      json |-> <<QuoteBody(symbol, 23110, 22900, <<>>)>>]}

\* The random draws sampled for the page's fetches: all lowest for a fallback
\* quote; all lowest or all highest for the indicators.
PageFallbackDraws == {[i \in 1..7 |-> 0]}

PageDraws(n) == {[i \in 1..n |-> 0], [i \in 1..n |-> RandSteps - 1]}

MaxInflight == 2

ConnectionError == <<"Connection error - using fallback data">>

PageIdle ==
    /\ selectedSymbol = <<>>
    /\ stockData = <<>>
    /\ technicalData = <<>>
    /\ loading = FALSE
    /\ error = <<>>
    /\ lastUpdate = <<>>
    /\ autoRefresh = TRUE
    /\ isConnected = TRUE
    /\ timers = <<>>
    /\ inflight = EmptyBag
    /\ refreshing = FALSE
    /\ refreshTimeout = FALSE
    /\ pageNow = 0

(***************************************************************************)
(* JavaScript numbers for the indicator calculators                        *)
(*                                                                         *)
(* A number is NaN, an infinity or an exact fraction n/d in lowest terms   *)
(* (d > 0); rounding of the binary representation and the sign of zero are *)
(* left out.                                                               *)
(***************************************************************************)

RECURSIVE Gcd(_, _)
Gcd(a, b) == IF b = 0 THEN a ELSE Gcd(b, a % b)

AbsInt(n) == IF n < 0 THEN -n ELSE n

Fin(n, d) ==
    LET s == IF d < 0 THEN -1 ELSE 1
        g == Gcd(AbsInt(n), AbsInt(d))
    IN  [k |-> "fin", n |-> (s * n) \div g, d |-> (s * d) \div g]

NaN == [k |-> "nan", n |-> 0, d |-> 1]
Inf(s) == [k |-> "inf", n |-> s, d |-> 1]
Num(i) == Fin(i, 1)

Sign(x) == IF x.n > 0 THEN 1 ELSE IF x.n < 0 THEN -1 ELSE 0

NumNeg(x) == [x EXCEPT !.n = -x.n]

NumAdd(a, b) ==
    IF a.k = "nan" \/ b.k = "nan" THEN NaN
    ELSE IF a.k = "inf" THEN (IF b.k = "inf" /\ b.n # a.n THEN NaN ELSE a)
    ELSE IF b.k = "inf" THEN b
    ELSE Fin(a.n * b.d + b.n * a.d, a.d * b.d)

NumSub(a, b) == NumAdd(a, NumNeg(b))

NumMul(a, b) ==
    IF a.k = "nan" \/ b.k = "nan" THEN NaN
    ELSE IF a.k = "inf" \/ b.k = "inf"
         THEN (IF Sign(a) * Sign(b) = 0 THEN NaN ELSE Inf(Sign(a) * Sign(b)))
    ELSE Fin(a.n * b.n, a.d * b.d)

NumDiv(a, b) ==
    IF a.k = "nan" \/ b.k = "nan" THEN NaN
    ELSE IF a.k = "inf"
         THEN (IF b.k = "inf" THEN NaN ELSE Inf(Sign(a) * (IF Sign(b) < 0 THEN -1 ELSE 1)))
    ELSE IF b.k = "inf" THEN Num(0)
    ELSE IF b.n = 0 THEN (IF a.n = 0 THEN NaN ELSE Inf(Sign(a)))
    ELSE Fin(a.n * b.d, a.d * b.n)

\* a < b; false when either is NaN.
NumLt(a, b) ==
    /\ a.k # "nan" /\ b.k # "nan"
    /\ IF a.k = "inf" THEN a.n < 0 /\ ~(b.k = "inf" /\ b.n < 0)
       ELSE IF b.k = "inf" THEN b.n > 0
       ELSE a.n * b.d < b.n * a.d

NumGt(a, b) == NumLt(b, a)

MathMax(a, b) ==
    IF a.k = "nan" \/ b.k = "nan" THEN NaN ELSE IF NumLt(a, b) THEN b ELSE a

MathAbs(x) == [x EXCEPT !.n = AbsInt(x.n)]

\* Mutant: the left operand returned whatever it is.
OrDefault_Keep(x, dflt) == x

\* x || dflt: the default replaces 0 and NaN.
OrDefault(x, dflt) == IF x.k = "inf" \/ (x.k = "fin" /\ x.n # 0) THEN x ELSE dflt

\* array.reduce((sum, x) => sum + x, 0) over a sequence of numbers.
SumNums(xs) ==
    LET acc[i \in 0..Len(xs)] == IF i = 0 THEN Num(0) ELSE NumAdd(acc[i - 1], xs[i])
    IN  acc[Len(xs)]

Nums(ints) == [i \in 1..Len(ints) |-> Num(ints[i])]

(***************************************************************************)
(* The indicator calculators (lib/stock-api.ts)                            *)
(*                                                                         *)
(* JavaScript's prices[j] is prices[j + 1] here.                           *)
(***************************************************************************)

\* The loop of calculateRSI: gains and losses over the last `period`
\* changes.
RsiGainsLosses(prices, period) ==
    LET len == Len(prices)
        change(i) == prices[len - i + 1] - prices[len - i]
        acc[i \in 0..period] ==
            IF i = 0 THEN [gains |-> 0, losses |-> 0]
            ELSE IF change(i) > 0
                 THEN [acc[i - 1] EXCEPT !.gains = @ + change(i)]
                 ELSE [acc[i - 1] EXCEPT !.losses = @ - change(i)]
    IN  acc[period]

calculateRSI(prices, period) ==
    IF Len(prices) < period + 1 THEN Num(50)
    ELSE LET gl == RsiGainsLosses(prices, period)
             avgGain == NumDiv(Num(gl.gains), Num(period))
             avgLoss == NumDiv(Num(gl.losses), Num(period))
             rs == NumDiv(avgGain, avgLoss)
         IN  NumSub(Num(100), NumDiv(Num(100), NumAdd(Num(1), rs)))

calculateEMA(prices, period) ==
    IF Len(prices) < period
    THEN (IF Len(prices) = 0 THEN Num(0) ELSE OrDefault(Num(prices[Len(prices)]), Num(0)))
    ELSE LET multiplier == NumDiv(Num(2), Num(period + 1))
             ema[i \in period..Len(prices)] ==
                 IF i = period
                 THEN NumDiv(SumNums(Nums(SubSeq(prices, 1, period))), Num(period))
                 ELSE NumAdd(NumMul(Num(prices[i]), multiplier),
                             NumMul(ema[i - 1], NumSub(Num(1), multiplier)))
         IN  ema[Len(prices)]

calculateSMA(prices, period) ==
    IF Len(prices) < period THEN Num(0)
    ELSE LET recentPrices == SubSeq(prices, Len(prices) - period + 1, Len(prices))
         IN  NumDiv(SumNums(Nums(recentPrices)), Num(period))

calculateVWAP(closes, volumes, highs, lows) ==
    IF Len(closes) = 0 THEN Num(0)
    ELSE LET acc[i \in 0..Len(closes)] ==
                 IF i = 0 THEN [totalVolume |-> Num(0), totalVolumePrice |-> Num(0)]
                 ELSE LET typicalPrice == NumDiv(Num(highs[i] + lows[i] + closes[i]), Num(3))
                          volume == OrDefault(Num(volumes[i]), Num(0))
                      IN  [totalVolume |-> NumAdd(acc[i - 1].totalVolume, volume),
                           totalVolumePrice |->
                               NumAdd(acc[i - 1].totalVolumePrice, NumMul(typicalPrice, volume))]
             tot == acc[Len(closes)]
         IN  IF NumGt(tot.totalVolume, Num(0))
             THEN NumDiv(tot.totalVolumePrice, tot.totalVolume)
             ELSE Num(closes[Len(closes)])

\* dx of calculateADX, before `dx || 20`.
DirectionalIndex(highs, lows, closes, period) ==
    LET acc[i \in 0..period] ==
            IF i = 0 THEN [tr |-> 0, plus |-> 0, minus |-> 0]
            ELSE LET idx == Len(highs) - i + 1
                     prevIdx == idx - 1
                     up == highs[idx] - highs[prevIdx]
                     down == lows[prevIdx] - lows[idx]
                     trueRange == Max2(highs[idx] - lows[idx],
                                       Max2(AbsInt(highs[idx] - closes[prevIdx]),
                                            AbsInt(lows[idx] - closes[prevIdx])))
                     dmPlus == IF up > down THEN Max2(up, 0) ELSE 0
                     dmMinus == IF down > up THEN Max2(down, 0) ELSE 0
                 IN  [tr |-> acc[i - 1].tr + trueRange,
                      plus |-> acc[i - 1].plus + dmPlus,
                      minus |-> acc[i - 1].minus + dmMinus]
        tot == acc[period]
        diPlus == NumMul(NumDiv(Num(tot.plus), Num(tot.tr)), Num(100))
        diMinus == NumMul(NumDiv(Num(tot.minus), Num(tot.tr)), Num(100))
    IN  NumMul(NumDiv(MathAbs(NumSub(diPlus, diMinus)), NumAdd(diPlus, diMinus)), Num(100))

calculateADX(highs, lows, closes, period) ==
    IF Len(highs) < period + 1 THEN Num(20)
    ELSE OrDefault(DirectionalIndex(highs, lows, closes, period), Num(20))

\* calculateVolatility: 0 for fewer than 2 prices; otherwise the annualised
\* standard deviation of the log returns, kept as a term over the price
\* ratios (logarithm and square root are not evaluated).  `days` is unused.
calculateVolatility(prices, days) ==
    IF Len(prices) < 2 THEN Num(0)
    ELSE [k |-> "annualizedVol",
          n |-> [i \in 1..(Len(prices) - 1) |-> <<prices[i + 1], prices[i]>>],
          d |-> 252]

\* Inputs: price series and bar series up to a length, periods up to a bound.
MaxSeries == 4
MaxBars == 3
MaxPeriod == 3

CalcPrices == {0, 100, 102}

CalcBar(h, l, c, v) == [h |-> h, l |-> l, c |-> c, v |-> v]

CalcBarSet ==
    {CalcBar(100, 100, 100, 0), CalcBar(102, 98, 100, 100),
     CalcBar(104, 100, 103, 200), CalcBar(100, 96, 97, 100)}

SeqsUpTo(S, n) == UNION {[1..m -> S] : m \in 0..n}

Field(bars, f) == [i \in 1..Len(bars) |-> bars[i][f]]

CalcFns == {"rsi", "ema", "sma", "vwap", "adx", "volatility"}

CalcIdle ==
    /\ calcFn = "none"
    /\ calcPrices = <<>>
    /\ calcBars = <<>>
    /\ calcPeriod = 0
    /\ calcCalled = FALSE
    /\ calcResult = NaN

(***************************************************************************)
(* AlertsNotificationSystem (components/alerts-notification-system.tsx)    *)
(*                                                                         *)
(* An alert is [id, type, indicator, condition, value, isActive,           *)
(* triggered]; a triggered-alert entry is [alert, currentValue] with the   *)
(* alert's id for the alert object (its acknowledged flag, which only the  *)
(* list's rendering reads, is left out).  A value that is undefined is     *)
(* <<>>, a number x is <<x>>.                                              *)
(***************************************************************************)

\* The switch on alert.type and alert.indicator.  TechnicalIndicators has
\* no sma20 or atr property.
AlertCurrentValue(alert, data) ==
    CASE alert.type = "price" -> <<data.price>>
      [] alert.type = "technical" /\ alert.indicator = "rsi" -> <<data.rsi>>
      [] alert.type = "technical" /\ alert.indicator \in {"sma20", "atr"} -> <<>>
      [] OTHER -> <<0>>

\* The switch on alert.condition; a comparison with undefined is false.
ShouldTrigger(alert, cur) ==
    /\ cur # <<>>
    /\ CASE alert.condition = "above" -> cur[1] > alert.value
         [] alert.condition = "below" -> cur[1] < alert.value
         [] alert.condition = "equals" ->
                100 * AbsInt(cur[1] - alert.value) < alert.value
         [] alert.condition = "crosses_above" -> cur[1] > alert.value
         [] alert.condition = "crosses_below" -> cur[1] < alert.value
         [] OTHER -> FALSE

\* Mutant: a triggered alert is checked again.
AlertArmed_IgnoreTriggered(alert) == alert.isActive

\* if (!alert.isActive || alert.triggered) return
AlertArmed(alert) == alert.isActive /\ ~alert.triggered

\* The positions of the alerts that checkAlerts triggers.
TriggeredNow(as, data) ==
    {i \in 1..Len(as) : AlertArmed(as[i]) /\ ShouldTrigger(as[i], AlertCurrentValue(as[i], data))}

\* The entries checkAlerts pushes, in the order of the alerts.
NewTriggeredAlerts(as, data) ==
    LET hit == TriggeredNow(as, data)
        acc[i \in 0..Len(as)] ==
            IF i = 0 THEN <<>>
            ELSE IF i \in hit
                 THEN Append(acc[i - 1],
                             [alert |-> as[i].id,
                              currentValue |-> AlertCurrentValue(as[i], data)[1]])
                 ELSE acc[i - 1]
    IN  acc[Len(as)]

\* The queued setAlerts updaters: every alert with a triggering alert's id is
\* marked triggered.
MarkTriggered(as, data) ==
    LET ids == {as[i].id : i \in TriggeredNow(as, data)}
    IN  [i \in 1..Len(as) |-> IF as[i].id \in ids THEN [as[i] EXCEPT !.triggered = TRUE]
                              ELSE as[i]]

\* toggleAlert's map body.
ToggledAlert(a) == [a EXCEPT !.isActive = ~a.isActive, !.triggered = FALSE]

\* The alerts the create dialog can make: type, indicator, condition, value.
AlertTemplates ==
    [type : {"price"}, indicator : {"none"},
     condition : {"above", "equals", "crosses_above", "crosses_below"},
     value : {100}]
    \cup [type : {"technical"}, indicator : {"sma20"}, condition : {"below"},
          value : {100}]

\* The data the parent passes down.
AlertDataSet == [price : {99, 100, 101}, rsi : {31}]

MaxAlertIds == 2
MaxTriggered == 2

AlertIdle ==
    /\ alerts = <<>>
    /\ triggeredAlerts = <<>>
    /\ alertData = [price |-> 0, rsi |-> 0]
    /\ alertPrev = <<>>
    /\ alertEffect = FALSE
    /\ alertNextId = 0

(***************************************************************************)
(* Notifications (components/notifications.tsx)                            *)
(*                                                                         *)
(* A notification is [id, type, title, symbol] with id [prefix, now] for   *)
(* `${prefix}-${Date.now()}`; message and timestamp, which nothing reads   *)
(* back, are left out.  rsi and changePercent are in hundredths, prices    *)
(* in cents.                                                               *)
(***************************************************************************)

Notification(prefix, type, title, stock, now) ==
    [id |-> [prefix |-> prefix, now |-> now], type |-> type, title |-> title,
     symbol |-> stock.symbol]

\* The notifications the effect collects from the props, in source order.
NewNotifications(stock, tech, now) ==
    (IF tech.rsi > 7000
     THEN <<Notification("rsi-overbought", "warning", "RSI Overbought", stock, now)>>
     ELSE IF tech.rsi < 3000
          THEN <<Notification("rsi-oversold", "signal", "RSI Oversold", stock, now)>>
          ELSE <<>>)
    \o (IF 1000 * AbsInt(stock.price - tech.vwap) < 2 * stock.price
        THEN <<Notification("vwap-touch", "signal", "VWAP Touch", stock, now)>>
        ELSE <<>>)
    \o (IF stock.volume > 2000000
        THEN <<Notification("volume-spike", "alert", "High Volume", stock, now)>>
        ELSE <<>>)
    \o (IF AbsInt(stock.changePercent) > 500
        THEN <<Notification("price-move", "alert", "Large Price Movement", stock, now)>>
        ELSE <<>>)
    \o (IF /\ tech.ema9 > tech.ema20
           /\ 1000 * (tech.ema9 - tech.ema20) > tech.ema20
           /\ 1000 * (tech.ema9 - tech.ema20) < 5 * tech.ema20
        THEN <<Notification("ema-cross", "signal", "EMA Crossover", stock, now)>>
        ELSE <<>>)

\* n.type + n.title
TypeTitle(n) == <<n.type, n.title>>

\* Mutant: every new notification is kept.
IsDuplicate_Never(prev, n) == FALSE

\* existingTypes.includes(n.type + n.title)
IsDuplicate(prev, n) == \E i \in 1..Len(prev) : TypeTitle(prev[i]) = TypeTitle(n)

\* slice(-10)
SliceLast(s, n) == IF Len(s) <= n THEN s ELSE SubSeq(s, Len(s) - n + 1, Len(s))

MaxNotifications == 10

\* The setNotifications updater of the effect.
AddNotifications(prev, new) ==
    LET filtered == SelectSeq(new, LAMBDA n : ~IsDuplicate(prev, n))
    IN  SliceLast(prev \o filtered, MaxNotifications)

\* The effect for the props given: nothing when disabled or without data.
NotificationsEffect(prev, stock, tech, enabled, now) ==
    IF ~enabled \/ stock = <<>> \/ tech = <<>> THEN prev
    ELSE AddNotifications(prev, NewNotifications(stock[1], tech[1], now))

\* The props the page passes: both null, or a quote and its indicators.
\* A quiet and a busy quote of one symbol and a busy quote of another; an
\* overbought, an oversold and a neutral set of indicators.
NotifStock(symbol, volume, changePercent) ==
    [symbol |-> symbol, price |-> 10000, volume |-> volume, changePercent |-> changePercent]

NotifStocks ==
    {NotifStock(<<"A", "A", "P", "L">>, 1500000, 120),
     NotifStock(<<"A", "A", "P", "L">>, 2500000, -640),
     NotifStock(<<"T", "S", "L", "A">>, 2500000, 120)}

NotifTechs ==
    {[rsi |-> 7500, vwap |-> 10010, ema9 |-> 10030, ema20 |-> 10000],
     [rsi |-> 2500, vwap |-> 10400, ema9 |-> 10030, ema20 |-> 10100],
     [rsi |-> 5000, vwap |-> 10400, ema9 |-> 10030, ema20 |-> 10029]}

\* Date.now() at the runs of the effect.
NotifTimes == {1}

MaxDismissals == 1

NotifIdle ==
    /\ notifications = <<>>
    /\ notifStock = <<>>
    /\ notifTech = <<>>
    /\ notifEnabled = FALSE
    /\ notifDismissed = <<>>

(***************************************************************************)
(* WatchlistManager (components/watchlist-manager.tsx)                     *)
(*                                                                         *)
(* A watchlist is [id, name, items, isDefault], an item [id, symbol,       *)
(* alertsEnabled]; the description of a list and the name, quote and       *)
(* addedAt of an item are only displayed.  Names and symbols are typed     *)
(* text, sequences of characters; ids are strings, Date.now().toString()   *)
(* being the decimal digits of the clock.                                  *)
(***************************************************************************)
WatchItem(id, symbol, alertsEnabled) ==
    [id |-> id, symbol |-> symbol, alertsEnabled |-> alertsEnabled]

\* useState initial value of watchlists.
WatchlistsInitial ==
    <<[id |-> "default",
       name |-> <<"M", "y", " ", "W", "a", "t", "c", "h", "l", "i", "s", "t">>,
       items |-> <<WatchItem("1", <<"A", "A", "P", "L">>, TRUE),
                   WatchItem("2", <<"G", "O", "O", "G", "L">>, FALSE),
                   WatchItem("3", <<"M", "S", "F", "T">>, TRUE)>>,
       isDefault |-> TRUE]>>

\* !s.trim(): the text is empty once the white space around it is removed.
TrimIsEmpty(s) == \A i \in 1..Len(s) : s[i] = " "

\* The texts typed into the symbol field and into the name field.
WatchSymbolInputs == {<<>>, <<" ">>, <<"t", "s", "l", "a">>}
WatchNameInputs == {<<>>, <<" ", " ">>, <<"T", "e", "c", "h">>}

\* The most watchlists and the most items of all the lists together that are
\* explored.
MaxWatchlists == 3
MaxWatchItems == 3

\* Date.now(): the clock never runs backwards, and two readings within one
\* millisecond are equal.
WatchTimes == {1000, 1001}
WatchNows == {t \in WatchTimes : t >= watchNow}

\* The ids of the lists and the number of items they hold together.
WatchIds(lists) == {lists[i].id : i \in 1..Len(lists)}

RECURSIVE WatchItemCount(_)
WatchItemCount(lists) ==
    IF lists = <<>> THEN 0
    ELSE Len(Head(lists).items) + WatchItemCount(Tail(lists))

\* The record of a handler call: its name, for createWatchlist and
\* deleteWatchlist its argument, and for deleteWatchlist the activeWatchlist
\* of its closure.
WatchCalled(op, arg, active) == <<[op |-> op, arg |-> arg, active |-> active]>>

\* prev.map(w => w.id === activeWatchlist ? {...w, items: f(w.items)} : w)
MapActiveItems(prev, active, f(_)) ==
    [i \in 1..Len(prev) |->
        IF prev[i].id = active THEN [prev[i] EXCEPT !.items = f(prev[i].items)]
        ELSE prev[i]]

FindIsDefault_Never(lists, watchlistId) == FALSE

\* watchlists.find(w => w.id === watchlistId)?.isDefault
FindIsDefault(lists, watchlistId) ==
    LET found == SelectSeq(lists, LAMBDA w : w.id = watchlistId)
    IN  found # <<>> /\ found[1].isDefault

WatchIdle ==
    /\ watchlists = <<>>
    /\ activeWatchlist = ""
    /\ watchNow = 0
    /\ watchCall = <<>>
(***************************************************************************)
(* Each specification runs one component; the others stay idle.            *)
(***************************************************************************)

IdleExceptReco ==
    /\ HoursIdle
    /\ SentIdle
    /\ FetchIdle
    /\ RouteIdle
    /\ PageIdle
    /\ CalcIdle
    /\ AlertIdle
    /\ NotifIdle
    /\ WatchIdle

IdleExceptHours ==
    /\ RecoIdle
    /\ SentIdle
    /\ FetchIdle
    /\ RouteIdle
    /\ PageIdle
    /\ CalcIdle
    /\ AlertIdle
    /\ NotifIdle
    /\ WatchIdle

IdleExceptSent ==
    /\ RecoIdle
    /\ HoursIdle
    /\ FetchIdle
    /\ RouteIdle
    /\ PageIdle
    /\ CalcIdle
    /\ AlertIdle
    /\ NotifIdle
    /\ WatchIdle

IdleExceptFetch ==
    /\ RecoIdle
    /\ HoursIdle
    /\ SentIdle
    /\ RouteIdle
    /\ PageIdle
    /\ CalcIdle
    /\ AlertIdle
    /\ NotifIdle
    /\ WatchIdle

IdleExceptRoute ==
    /\ RecoIdle
    /\ HoursIdle
    /\ SentIdle
    /\ FetchIdle
    /\ PageIdle
    /\ CalcIdle
    /\ AlertIdle
    /\ NotifIdle
    /\ WatchIdle

IdleExceptPage ==
    /\ RecoIdle
    /\ HoursIdle
    /\ SentIdle
    /\ FetchIdle
    /\ RouteIdle
    /\ CalcIdle
    /\ AlertIdle
    /\ NotifIdle
    /\ WatchIdle

IdleExceptCalc ==
    /\ RecoIdle
    /\ HoursIdle
    /\ SentIdle
    /\ FetchIdle
    /\ RouteIdle
    /\ PageIdle
    /\ AlertIdle
    /\ NotifIdle
    /\ WatchIdle

IdleExceptAlert ==
    /\ RecoIdle
    /\ HoursIdle
    /\ SentIdle
    /\ FetchIdle
    /\ RouteIdle
    /\ PageIdle
    /\ CalcIdle
    /\ NotifIdle
    /\ WatchIdle

IdleExceptNotif ==
    /\ RecoIdle
    /\ HoursIdle
    /\ SentIdle
    /\ FetchIdle
    /\ RouteIdle
    /\ PageIdle
    /\ CalcIdle
    /\ AlertIdle
    /\ WatchIdle

IdleExceptWatch ==
    /\ RecoIdle
    /\ HoursIdle
    /\ SentIdle
    /\ FetchIdle
    /\ RouteIdle
    /\ PageIdle
    /\ CalcIdle
    /\ AlertIdle
    /\ NotifIdle

(***************************************************************************)
(* Specification of the recommendation generators: the initial state draws *)
(* the arguments of one generator from the sets above, and the action      *)
(* applies the generator to them.                                          *)
(***************************************************************************)

RecoInit ==
    /\ recoFn \in {"trade", "option"}
    /\ tradeCalled = FALSE
    /\ tradeArgs \in (IF recoFn = "trade" THEN TradeArgSet ELSE {NoTradeArgs})
    /\ trades = <<>>
    /\ optCalled = FALSE
    /\ optArgs \in (IF recoFn = "option" THEN OptArgSet ELSE {NoOptArgs})
    /\ optRecs = <<>>
    /\ IdleExceptReco

CallGenerateTradeRecommendations ==
    /\ recoFn = "trade"
    /\ ~tradeCalled
    /\ tradeCalled' = TRUE
    /\ trades' = generateTradeRecommendations(tradeArgs)
    /\ UNCHANGED <<recoFn, tradeArgs, optCalled, optArgs, optRecs>>
    /\ UNCHANGED exceptReco

CallGenerateOptionRecommendations ==
    /\ recoFn = "option"
    /\ ~optCalled
    /\ optCalled' = TRUE
    /\ optRecs' = generateOptionRecommendations(optArgs.v, optArgs.m, optArgs.price)
    /\ UNCHANGED <<recoFn, optArgs, tradeCalled, tradeArgs, trades>>
    /\ UNCHANGED exceptReco

RecoNext ==
    \/ CallGenerateTradeRecommendations
    \/ CallGenerateOptionRecommendations

SpecReco == RecoInit /\ [][RecoNext]_vars

(***************************************************************************)
(* Specification of getMarketHours: the initial state draws the instant,   *)
(* the New York offset in force and the runtime zone's skipped hour; the   *)
(* action applies the function.                                            *)
(***************************************************************************)

HoursInit ==
    /\ hoursNow \in 0..(MinutesPerWeek - 1)
    /\ hoursZone \in {"EST", "EDT"}
    /\ hoursLocalGap \in LocalGaps
    /\ hoursCalled = FALSE
    /\ marketHours = NoMarketHours
    /\ IdleExceptHours

CallGetMarketHours ==
    /\ ~hoursCalled
    /\ hoursCalled' = TRUE
    /\ marketHours' = getMarketHours(hoursNow, hoursZone, hoursLocalGap)
    /\ UNCHANGED <<hoursNow, hoursZone, hoursLocalGap>>
    /\ UNCHANGED exceptHours

HoursNext == CallGetMarketHours

SpecHours == HoursInit /\ [][HoursNext]_vars

(***************************************************************************)
(* Specification of calculateSentiment: the initial state draws the props, *)
(* the action applies the function.                                        *)
(***************************************************************************)

SentInit ==
    /\ sentStock \in SentStockSet
    /\ sentTech \in SentTechSet
    /\ sentCalled = FALSE
    /\ sentResult = NoSentiment
    /\ IdleExceptSent

CallCalculateSentiment ==
    /\ ~sentCalled
    /\ sentCalled' = TRUE
    /\ sentResult' = calculateSentiment(sentStock, sentTech)
    /\ UNCHANGED <<sentStock, sentTech>>
    /\ UNCHANGED exceptSent

SentNext == CallCalculateSentiment

SpecSent == SentInit /\ [][SentNext]_vars

(***************************************************************************)
(* Specification of fetchStockData and fetchHistoricalVolatility: the      *)
(* initial state draws the function, its symbol, the network's behaviour   *)
(* and the clock; the action makes the call, drawing its random numbers.   *)
(***************************************************************************)

FetchInit ==
    /\ fetchFn \in {"stock", "volatility"}
    /\ fetchSymbol \in FetchSymbols
    /\ fetchNet \in (IF fetchFn = "stock" THEN NetSet(StockBodies) ELSE NetSet(VolBodies))
    /\ fetchNow \in FetchClock
    /\ fetchDraws = <<>>
    /\ fetchResults = <<>>
    /\ IdleExceptFetch

CallFetchStockData ==
    /\ fetchFn = "stock"
    /\ fetchResults = <<>>
    /\ \E r \in Draws(7) :
          /\ fetchDraws' = (IF TryFetch(fetchNet, TRUE).threw THEN <<r>> ELSE <<>>)
          /\ fetchResults' = <<fetchStockData(fetchSymbol, fetchNet, r, fetchNow)>>
    /\ UNCHANGED <<fetchFn, fetchSymbol, fetchNet, fetchNow>>
    /\ UNCHANGED exceptFetch

CallFetchHistoricalVolatility ==
    /\ fetchFn = "volatility"
    /\ fetchResults = <<>>
    /\ \E r \in Draws(6) :
          /\ fetchDraws' = (IF TryFetch(fetchNet, FALSE).threw THEN <<r>> ELSE <<>>)
          /\ fetchResults' = <<fetchHistoricalVolatility(fetchSymbol, fetchNet, r)>>
    /\ UNCHANGED <<fetchFn, fetchSymbol, fetchNet, fetchNow>>
    /\ UNCHANGED exceptFetch

FetchNext ==
    \/ CallFetchStockData
    \/ CallFetchHistoricalVolatility

SpecFetch == FetchInit /\ [][FetchNext]_vars

(***************************************************************************)
(* Specification of fetchTechnicalIndicators: two calls for one symbol     *)
(* while the quote route answers both with the same quote.                 *)
(***************************************************************************)

TechCalls == 2

TechNets == {n \in NetResponses(StockBodies) :
                n.ok /\ n.parses /\ n.json # <<>> /\ ~Truthy(n.json[1].error)}

TechInit ==
    /\ fetchFn = "technical"
    /\ fetchSymbol \in FetchSymbols
    /\ fetchNet \in TechNets
    /\ fetchNow \in FetchClock
    /\ fetchDraws = <<>>
    /\ fetchResults = <<>>
    /\ IdleExceptFetch

CallFetchTechnicalIndicators ==
    /\ fetchFn = "technical"
    /\ Len(fetchResults) < TechCalls
    /\ \E rt \in Draws(7) :
       LET rs == [i \in 1..7 |-> 0]   \* the inner fetchStockData draws nothing: the quote arrives
       IN
          /\ fetchDraws' = Append(fetchDraws, rt)
          /\ fetchResults' =
                Append(fetchResults,
                       fetchTechnicalIndicators(fetchSymbol, fetchNet, rs, rt, fetchNow))
    /\ UNCHANGED <<fetchFn, fetchSymbol, fetchNet, fetchNow>>
    /\ UNCHANGED exceptFetch

TechNext == CallFetchTechnicalIndicators

SpecTech == TechInit /\ [][TechNext]_vars

(***************************************************************************)
(* Specification of the quote route: one request handled, one action per   *)
(* awaited broker request; the broker's answers and the random numbers are *)
(* drawn as each is awaited.                                               *)
(***************************************************************************)

RouteInit ==
    /\ routePc = "start"
    /\ routeParam \in FetchSymbols
    /\ routeCreds \in BOOLEAN
    /\ routeNow \in FetchClock
    /\ routeLog = NoLog
    /\ routeData = NoData
    /\ routeResponse = NoResponse
    /\ IdleExceptRoute

\* Control reaches the inner catch: the mock quote is returned.
RouteCatch ==
    \E r \in Draws(7) :
        /\ routeResponse' = CatchResponse(MockQuote(toUpperCase(routeParam), r, routeNow))
        /\ routePc' = "done"

\* Lines 9-24: the symbol is upper-cased and the credentials are tested.
RouteStart ==
    /\ routePc = "start"
    /\ \/ /\ ~routeCreds
          /\ RouteCatch
       \/ /\ routeCreds
          /\ routePc' = "today"
          /\ UNCHANGED routeResponse
    /\ UNCHANGED <<routeParam, routeCreds, routeNow, routeLog, routeData>>
    /\ UNCHANGED exceptRoute

\* Lines 33-45: today's bar.
RouteTodayBar ==
    /\ routePc = "today"
    /\ \E out \in TodayBarOutcomes :
          /\ routeLog' = [routeLog EXCEPT !.today = out.kind]
          /\ \/ /\ Throws(out)
                /\ RouteCatch
                /\ UNCHANGED routeData
             \/ /\ ~Throws(out)
                /\ routeData' = [routeData EXCEPT !.today = BarsOf(out)]
                /\ routePc' = "yesterday"
                /\ UNCHANGED routeResponse
    /\ UNCHANGED <<routeParam, routeCreds, routeNow>>
    /\ UNCHANGED exceptRoute

\* Lines 47-59: yesterday's bar.
RouteYesterdayBar ==
    /\ routePc = "yesterday"
    /\ \E out \in YesterdayBarOutcomes :
          /\ routeLog' = [routeLog EXCEPT !.yesterday = out.kind]
          /\ \/ /\ Throws(out)
                /\ RouteCatch
                /\ UNCHANGED routeData
             \/ /\ ~Throws(out)
                /\ routeData' = [routeData EXCEPT !.yesterday = BarsOf(out)]
                /\ routePc' = "quote"
                /\ UNCHANGED routeResponse
    /\ UNCHANGED <<routeParam, routeCreds, routeNow>>
    /\ UNCHANGED exceptRoute

\* Lines 61-81: the latest quote.
RouteQuote ==
    /\ routePc = "quote"
    /\ \E out \in QuoteOutcomes :
          /\ routeLog' = [routeLog EXCEPT !.quote = out.kind]
          /\ \/ /\ QuoteFails(out)
                /\ RouteCatch
                /\ UNCHANGED routeData
             \/ /\ ~QuoteFails(out)
                /\ routeData' = [routeData EXCEPT !.quote = out.json]
                /\ routePc' = "trade"
                /\ UNCHANGED routeResponse
    /\ UNCHANGED <<routeParam, routeCreds, routeNow>>
    /\ UNCHANGED exceptRoute

\* Lines 83-165: the latest trade, then the quote is assembled and returned.
RouteTrade ==
    /\ routePc = "trade"
    /\ \E out \in TradeOutcomes :
          /\ routeLog' = [routeLog EXCEPT !.trade = out.kind]
          /\ \/ /\ Throws(out)
                /\ RouteCatch
             \/ /\ ~Throws(out)
                /\ \E r \in Draws(2) :
                      routeResponse' =
                          RespondReal(RealQuote(toUpperCase(routeParam), routeData.today,
                                                routeData.yesterday, routeData.quote,
                                                TradeOf(out), r, routeNow))
                /\ routePc' = "done"
    /\ UNCHANGED <<routeParam, routeCreds, routeNow, routeData>>
    /\ UNCHANGED exceptRoute

RouteNext ==
    \/ RouteStart
    \/ RouteTodayBar
    \/ RouteYesterdayBar
    \/ RouteQuote
    \/ RouteTrade

SpecRoute == RouteInit /\ [][RouteNext]_vars


(***************************************************************************)
(* The TradingChecklist page.  A click or a switch is a discrete event:    *)
(* the re-render and the effects it triggers run before the next event or  *)
(* timer callback, so an action includes the auto-refresh effect's re-run. *)
(***************************************************************************)

PageInit ==
    /\ selectedSymbol = <<>>
    /\ stockData = <<>>
    /\ technicalData = <<>>
    /\ loading = FALSE
    /\ error = <<>>
    /\ lastUpdate = <<>>
    /\ autoRefresh = TRUE
    /\ isConnected = TRUE
    /\ timers = <<>>
    /\ inflight = EmptyBag
    /\ refreshing = FALSE
    /\ refreshTimeout = FALSE
    /\ pageNow \in PageInstants
    /\ IdleExceptPage

\* handleSymbolSelect up to its await, and the render that follows.
handleSymbolSelect(symbol, origin) ==
    /\ BagCardinality(inflight) < MaxInflight
    /\ selectedSymbol' = symbol
    /\ loading' = TRUE
    /\ error' = <<>>
    /\ inflight' = inflight (+) SetToBag({[symbol |-> symbol, origin |-> origin]})
    /\ timers' = TimersAfter(timers, selectedSymbol, autoRefresh, symbol, autoRefresh, pageNow)
    /\ UNCHANGED <<stockData, technicalData, lastUpdate, autoRefresh, isConnected>>

\* StockSearch passes a symbol on (typed and upper-cased, or a popular one).
SelectSymbol ==
    /\ \E symbol \in PageSymbols : handleSymbolSelect(symbol, "select")
    /\ UNCHANGED <<refreshing, refreshTimeout, pageNow>>
    /\ UNCHANGED exceptPage

\* The auto-refresh switch: setAutoRefresh(checked).
ToggleAutoRefresh ==
    /\ autoRefresh' = ~autoRefresh
    /\ timers' = TimersAfter(timers, selectedSymbol, autoRefresh, selectedSymbol, ~autoRefresh,
                             pageNow)
    /\ UNCHANGED <<selectedSymbol, stockData, technicalData, loading, error, lastUpdate,
                   isConnected, inflight, refreshing, refreshTimeout, pageNow>>
    /\ UNCHANGED exceptPage

\* An interval timer fires: handleSymbolSelect(selectedSymbol) with the
\* selectedSymbol its callback closed over.
TimerTick ==
    /\ \E i \in 1..Len(timers) : handleSymbolSelect(timers[i].symbol, "tick")
    /\ UNCHANGED <<refreshing, refreshTimeout, pageNow>>
    /\ UNCHANGED exceptPage

\* The refresh button (disabled while refreshing): RealTimeStatus's
\* handleManualRefresh up to its await, with the page's handleManualRefresh.
ManualRefresh ==
    /\ ~refreshing
    /\ refreshing' = TRUE
    /\ IF ManualRefreshFetches(selectedSymbol)
       THEN /\ handleSymbolSelect(selectedSymbol, "manual")
            /\ UNCHANGED refreshTimeout
       ELSE /\ refreshTimeout' = TRUE
            /\ UNCHANGED <<selectedSymbol, stockData, technicalData, loading, error,
                           lastUpdate, autoRefresh, isConnected, timers, inflight>>
    /\ UNCHANGED pageNow
    /\ UNCHANGED exceptPage

\* Promise.all of a pending call settles: the rest of handleSymbolSelect, and
\* for a manual refresh the rest of RealTimeStatus's handleManualRefresh.
FetchesSettle ==
    /\ \E call \in BagToSet(inflight) :
         \E net1 \in PageNets(call.symbol), net2 \in PageNets(call.symbol),
            rs \in PageFallbackDraws, rq \in PageFallbackDraws, rt \in PageDraws(7) :
           LET stock == fetchStockData(call.symbol, net1, rs, pageNow)
               technical == fetchTechnicalIndicators(call.symbol, net2, rq, rt, pageNow)
           IN  /\ IF stock.state = "fulfilled" /\ technical.state = "fulfilled"
                  THEN /\ stockData' = stock.value
                       /\ technicalData' = technical.value
                       /\ lastUpdate' = <<pageNow>>
                       /\ isConnected' = TRUE
                       /\ UNCHANGED error
                  ELSE /\ error' = <<"Failed to fetch stock data">>
                       /\ stockData' = <<>>
                       /\ technicalData' = <<>>
                       /\ isConnected' = FALSE
                       /\ UNCHANGED lastUpdate
               /\ loading' = FALSE
               /\ inflight' = inflight (-) SetToBag({call})
               /\ refreshTimeout' = (refreshTimeout \/ call.origin = "manual")
    /\ UNCHANGED <<selectedSymbol, autoRefresh, timers, refreshing, pageNow>>
    /\ UNCHANGED exceptPage

\* setTimeout(() => setRefreshing(false), 1000)
RefreshTimeout ==
    /\ refreshTimeout
    /\ refreshing' = FALSE
    /\ refreshTimeout' = FALSE
    /\ UNCHANGED <<selectedSymbol, stockData, technicalData, loading, error, lastUpdate,
                   autoRefresh, isConnected, timers, inflight, pageNow>>
    /\ UNCHANGED exceptPage

\* The window's online / offline events: setIsConnected(navigator.onLine).
ConnectionChange ==
    /\ \E onLine \in BOOLEAN : onLine # isConnected /\ isConnected' = onLine
    /\ UNCHANGED <<selectedSymbol, stockData, technicalData, loading, error, lastUpdate,
                   autoRefresh, timers, inflight, refreshing, refreshTimeout, pageNow>>
    /\ UNCHANGED exceptPage

\* An unhandledrejection event whose reason is a string that includes
\* "Failed to connect".
UnhandledRejection ==
    /\ error' = ConnectionError
    /\ isConnected' = FALSE
    /\ <<error, isConnected>> # <<ConnectionError, FALSE>>
    /\ UNCHANGED <<selectedSymbol, stockData, technicalData, loading, lastUpdate,
                   autoRefresh, timers, inflight, refreshing, refreshTimeout, pageNow>>
    /\ UNCHANGED exceptPage

\* The clock moves on to another observed instant.
TimePasses ==
    /\ \E now \in PageInstants \ {pageNow} : pageNow' = now
    /\ UNCHANGED <<selectedSymbol, stockData, technicalData, loading, error, lastUpdate,
                   autoRefresh, isConnected, timers, inflight, refreshing, refreshTimeout>>
    /\ UNCHANGED exceptPage

PageNext ==
    \/ SelectSymbol
    \/ ToggleAutoRefresh
    \/ TimerTick
    \/ ManualRefresh
    \/ FetchesSettle
    \/ RefreshTimeout
    \/ ConnectionChange
    \/ UnhandledRejection
    \/ TimePasses

SpecPage == PageInit /\ [][PageNext]_vars

(***************************************************************************)
(* The indicator calculators: one call of one calculator.                  *)
(***************************************************************************)

CalcInit ==
    /\ calcFn \in CalcFns
    /\ IF calcFn \in {"vwap", "adx"}
       THEN calcPrices = <<>> /\ calcBars \in SeqsUpTo(CalcBarSet, MaxBars)
       ELSE calcPrices \in SeqsUpTo(CalcPrices, MaxSeries) /\ calcBars = <<>>
    /\ calcPeriod \in IF calcFn = "vwap" THEN {0} ELSE 1..MaxPeriod
    /\ calcCalled = FALSE
    /\ calcResult = NaN
    /\ IdleExceptCalc

CallCalculator ==
    /\ ~calcCalled
    /\ calcCalled' = TRUE
    /\ calcResult' =
         CASE calcFn = "rsi" -> calculateRSI(calcPrices, calcPeriod)
           [] calcFn = "ema" -> calculateEMA(calcPrices, calcPeriod)
           [] calcFn = "sma" -> calculateSMA(calcPrices, calcPeriod)
           [] calcFn = "vwap" -> calculateVWAP(Field(calcBars, "c"), Field(calcBars, "v"),
                                               Field(calcBars, "h"), Field(calcBars, "l"))
           [] calcFn = "adx" -> calculateADX(Field(calcBars, "h"), Field(calcBars, "l"),
                                             Field(calcBars, "c"), calcPeriod)
           [] calcFn = "volatility" -> calculateVolatility(calcPrices, calcPeriod)
    /\ UNCHANGED <<calcFn, calcPrices, calcBars, calcPeriod>>
    /\ UNCHANGED exceptCalc

CalcNext == CallCalculator

SpecCalc == CalcInit /\ [][CalcNext]_vars

(***************************************************************************)
(* AlertsNotificationSystem.  An event changes the props or the alerts;    *)
(* the effect with dependencies [stockData, technicalData, alerts] then    *)
(* runs checkAlerts before the next event.                                 *)
(***************************************************************************)

AlertInit ==
    /\ alerts = <<>>
    /\ triggeredAlerts = <<>>
    /\ alertData \in AlertDataSet
    /\ alertPrev = <<>>
    /\ alertEffect = TRUE
    /\ alertNextId = 1
    /\ IdleExceptAlert

\* The parent re-renders with new stockData / technicalData.
AlertsDataUpdate ==
    /\ ~alertEffect
    /\ \E data \in AlertDataSet \ {alertData} : alertData' = data
    /\ alertPrev' = <<alertData>>
    /\ alertEffect' = TRUE
    /\ UNCHANGED <<alerts, triggeredAlerts, alertNextId>>
    /\ UNCHANGED exceptAlert

createAlert ==
    /\ ~alertEffect
    /\ alertNextId <= MaxAlertIds
    /\ \E t \in AlertTemplates :
         alerts' = Append(alerts, [id |-> alertNextId, type |-> t.type,
                                   indicator |-> t.indicator, condition |-> t.condition,
                                   value |-> t.value, isActive |-> TRUE,
                                   triggered |-> FALSE])
    /\ alertNextId' = alertNextId + 1
    /\ alertEffect' = TRUE
    /\ UNCHANGED <<triggeredAlerts, alertData, alertPrev>>
    /\ UNCHANGED exceptAlert

deleteAlert ==
    /\ ~alertEffect
    /\ \E i \in 1..Len(alerts) :
         alerts' = SelectSeq(alerts, LAMBDA a : a.id # alerts[i].id)
    /\ alertEffect' = TRUE
    /\ UNCHANGED <<triggeredAlerts, alertData, alertPrev, alertNextId>>
    /\ UNCHANGED exceptAlert

toggleAlert ==
    /\ ~alertEffect
    /\ Len(triggeredAlerts) < MaxTriggered
    /\ \E i \in 1..Len(alerts) :
         alerts' = [j \in 1..Len(alerts) |->
                       IF alerts[j].id = alerts[i].id THEN ToggledAlert(alerts[j])
                       ELSE alerts[j]]
    /\ alertEffect' = TRUE
    /\ UNCHANGED <<triggeredAlerts, alertData, alertPrev, alertNextId>>
    /\ UNCHANGED exceptAlert

clearTriggeredAlert ==
    /\ ~alertEffect
    /\ \E i \in 1..Len(triggeredAlerts) :
         triggeredAlerts' = SubSeq(triggeredAlerts, 1, i - 1)
                              \o SubSeq(triggeredAlerts, i + 1, Len(triggeredAlerts))
    /\ UNCHANGED <<alerts, alertData, alertPrev, alertEffect, alertNextId>>
    /\ UNCHANGED exceptAlert

\* The effect: checkAlerts().  Its setAlerts changes a dependency, so the
\* effect is due again.
checkAlerts ==
    /\ alertEffect
    /\ alerts' = MarkTriggered(alerts, alertData)
    /\ triggeredAlerts' = NewTriggeredAlerts(alerts, alertData) \o triggeredAlerts
    /\ alertEffect' = (alerts' # alerts)
    /\ UNCHANGED <<alertData, alertPrev, alertNextId>>
    /\ UNCHANGED exceptAlert

AlertNext ==
    \/ AlertsDataUpdate
    \/ createAlert
    \/ deleteAlert
    \/ toggleAlert
    \/ clearTriggeredAlert
    \/ checkAlerts

SpecAlert == AlertInit /\ [][AlertNext]_vars

(***************************************************************************)
(* Notifications.  The effect has dependencies [stockData, technicalData,  *)
(* enabled]; it runs with the render that changed one of them.             *)
(***************************************************************************)

NotifInit ==
    /\ notifications = <<>>
    /\ notifStock = <<>>
    /\ notifTech = <<>>
    /\ notifEnabled = TRUE
    /\ notifDismissed = <<>>
    /\ IdleExceptNotif

\* The page stores a fetched quote with its indicators.
NotifDataUpdate ==
    /\ \E stock \in NotifStocks, tech \in NotifTechs, now \in NotifTimes :
         /\ <<stock>> # notifStock \/ <<tech>> # notifTech
         /\ notifStock' = <<stock>>
         /\ notifTech' = <<tech>>
         /\ notifications' =
                NotificationsEffect(notifications, <<stock>>, <<tech>>, notifEnabled, now)
    /\ UNCHANGED <<notifEnabled, notifDismissed>>
    /\ UNCHANGED exceptNotif

\* The page's catch block stores null for both.
NotifDataCleared ==
    /\ notifStock # <<>>
    /\ notifStock' = <<>>
    /\ notifTech' = <<>>
    /\ UNCHANGED <<notifications, notifEnabled, notifDismissed>>
    /\ UNCHANGED exceptNotif

\* The notifications switch of the page.
NotifToggleEnabled ==
    /\ notifEnabled' = ~notifEnabled
    /\ \E now \in NotifTimes :
         notifications' =
             NotificationsEffect(notifications, notifStock, notifTech, ~notifEnabled, now)
    /\ UNCHANGED <<notifStock, notifTech, notifDismissed>>
    /\ UNCHANGED exceptNotif

\* The X button of a rendered notification.
dismissNotification ==
    /\ notifEnabled
    /\ Len(notifDismissed) < MaxDismissals
    /\ \E i \in 1..Len(notifications) :
         /\ notifications' = SelectSeq(notifications, LAMBDA n : n.id # notifications[i].id)
         /\ notifDismissed' = Append(notifDismissed, notifications[i].id)
    /\ UNCHANGED <<notifStock, notifTech, notifEnabled>>
    /\ UNCHANGED exceptNotif

NotifNext ==
    \/ NotifDataUpdate
    \/ NotifDataCleared
    \/ NotifToggleEnabled
    \/ dismissNotification

SpecNotif == NotifInit /\ [][NotifNext]_vars

(***************************************************************************)
(* WatchlistManager: the handlers of the component, each one a discrete    *)
(* event that runs on the state of the latest render.                      *)
(***************************************************************************)
WatchInit ==
    /\ watchlists = WatchlistsInitial
    /\ activeWatchlist = "default"
    /\ watchNow = 1000
    /\ watchCall = <<>>
    /\ IdleExceptWatch

\* currentWatchlist, as a sequence: the first list with the active id, if any.
currentWatchlist ==
    LET found == SelectSeq(watchlists, LAMBDA w : w.id = activeWatchlist)
    IN  IF found = <<>> THEN <<>> ELSE <<found[1]>>

addToWatchlist ==
    \E newSymbol \in WatchSymbolInputs :
        /\ watchCall' = WatchCalled("addToWatchlist", <<>>, <<>>)
        /\ IF TrimIsEmpty(newSymbol)
           THEN UNCHANGED <<watchlists, watchNow>>
           ELSE \E now \in WatchNows :
                  LET newItem == WatchItem(ToString(now), toUpperCase(newSymbol), FALSE)
                      Add(items) == Append(items, newItem)
                  IN  /\ WatchItemCount(MapActiveItems(watchlists, activeWatchlist, Add))
                            <= MaxWatchItems
                      /\ watchNow' = now
                      /\ watchlists' = MapActiveItems(watchlists, activeWatchlist, Add)
        /\ UNCHANGED activeWatchlist
        /\ UNCHANGED exceptWatch

removeFromWatchlist ==
    /\ currentWatchlist # <<>>
    /\ \E k \in 1..Len(currentWatchlist[1].items) :
         LET itemId == currentWatchlist[1].items[k].id
             Remove(items) == SelectSeq(items, LAMBDA item : item.id # itemId)
         IN  /\ watchCall' = WatchCalled("removeFromWatchlist", <<>>, <<>>)
             /\ watchlists' = MapActiveItems(watchlists, activeWatchlist, Remove)
    /\ UNCHANGED <<activeWatchlist, watchNow>>
    /\ UNCHANGED exceptWatch

toggleAlerts ==
    /\ currentWatchlist # <<>>
    /\ \E k \in 1..Len(currentWatchlist[1].items) :
         LET itemId == currentWatchlist[1].items[k].id
             Toggle(items) ==
                 [i \in 1..Len(items) |->
                     IF items[i].id = itemId
                     THEN [items[i] EXCEPT !.alertsEnabled = ~items[i].alertsEnabled]
                     ELSE items[i]]
         IN  /\ watchCall' = WatchCalled("toggleAlerts", <<>>, <<>>)
             /\ watchlists' = MapActiveItems(watchlists, activeWatchlist, Toggle)
    /\ UNCHANGED <<activeWatchlist, watchNow>>
    /\ UNCHANGED exceptWatch

createWatchlist ==
    \E newWatchlistName \in WatchNameInputs :
        /\ watchCall' = WatchCalled("createWatchlist", newWatchlistName, <<>>)
        /\ IF TrimIsEmpty(newWatchlistName)
           THEN UNCHANGED <<watchlists, activeWatchlist, watchNow>>
           ELSE \E now \in WatchNows :
                  LET newWatchlist == [id |-> ToString(now), name |-> newWatchlistName,
                                       items |-> <<>>, isDefault |-> FALSE]
                  IN  /\ Len(watchlists) < MaxWatchlists
                      /\ watchNow' = now
                      /\ watchlists' = Append(watchlists, newWatchlist)
                      /\ activeWatchlist' = newWatchlist.id
        /\ UNCHANGED exceptWatch

\* The menu item is rendered for the lists that are not the default one; the
\* handler is modelled for every list.
deleteWatchlist ==
    \E watchlistId \in WatchIds(watchlists) :
        /\ watchCall' = WatchCalled("deleteWatchlist", watchlistId, activeWatchlist)
        /\ IF FindIsDefault(watchlists, watchlistId)
           THEN UNCHANGED <<watchlists, activeWatchlist>>
           ELSE /\ watchlists' = SelectSeq(watchlists, LAMBDA w : w.id # watchlistId)
                /\ activeWatchlist' =
                      IF activeWatchlist = watchlistId THEN "default" ELSE activeWatchlist
        /\ UNCHANGED watchNow
        /\ UNCHANGED exceptWatch

\* onValueChange of the tabs and of the selector of the add dialog: one of
\* the rendered values, the ids of the lists.
setActiveWatchlist ==
    \E id \in WatchIds(watchlists) :
        /\ watchCall' = WatchCalled("setActiveWatchlist", <<>>, <<>>)
        /\ activeWatchlist' = id
        /\ UNCHANGED <<watchlists, watchNow>>
        /\ UNCHANGED exceptWatch

WatchNext ==
    \/ addToWatchlist
    \/ removeFromWatchlist
    \/ toggleAlerts
    \/ createWatchlist
    \/ deleteWatchlist
    \/ setActiveWatchlist

SpecWatch == WatchInit /\ [][WatchNext]_vars
(***************************************************************************)
(* Claims about the recommendation generators                              *)
(***************************************************************************)

StrategiesOf(recs) == [i \in 1..Len(recs) |-> recs[i].strategy]

\* The catalog's constants per strategy name.
TradeCatalog ==
    [s \in {"Bull Call Spread", "Cash Secured Put", "Iron Condor"} |->
        CASE s = "Bull Call Spread" ->
                [pop |-> 72, maxLoss |-> 250, creditRatio |-> 40, modelScore |-> 85]
          [] s = "Cash Secured Put" ->
                [pop |-> 68, maxLoss |-> 480, creditRatio |-> 35, modelScore |-> 78]
          [] s = "Iron Condor" ->
                [pop |-> 65, maxLoss |-> 350, creditRatio |-> 42, modelScore |-> 71]]

ExpectedTradeStrategies(a) ==
    (IF a.rsi < 7000 /\ a.socialSentiment > 0 /\ a.changePercent > 0
        THEN <<"Bull Call Spread">> ELSE <<>>)
    \o (IF a.rsi > 3000 /\ a.ivPercentile > 5000 /\ a.analystRating > 300
        THEN <<"Cash Secured Put">> ELSE <<>>)
    \o (IF a.adx < 2500 /\ a.ivPercentile > 6000
        THEN <<"Iron Condor">> ELSE <<>>)

\* C3: generateTradeRecommendations returns the catalog entries whose rule
\* holds, in the order Bull Call Spread, Cash Secured Put, Iron Condor, each
\* at most once and at most 5 in all; every entry carries the symbol argument
\* as ticker and its template's constant pop, maxLoss, creditRatio and
\* modelScore.
C3_TradeRecommendations ==
    tradeCalled =>
        /\ StrategiesOf(trades) = ExpectedTradeStrategies(tradeArgs)
        /\ Len(trades) <= 5
        /\ \A i \in 1..Len(trades) :
              /\ trades[i].ticker = tradeArgs.symbol
              /\ trades[i].strategy \in DOMAIN TradeCatalog
              /\ LET c == TradeCatalog[trades[i].strategy]
                 IN  /\ trades[i].pop = c.pop
                     /\ trades[i].maxLoss = c.maxLoss
                     /\ trades[i].creditRatio = c.creditRatio
                     /\ trades[i].modelScore = c.modelScore

\* All three rules hold at once and the three templates are returned.
C3_Witness ==
    /\ tradeCalled
    /\ StrategiesOf(trades) = <<"Bull Call Spread", "Cash Secured Put", "Iron Condor">>
    /\ tradeArgs.symbol = "tsla"

ExpectedOptionStrategies(v) ==
    (IF v.oneMonth > 3000 THEN <<"Short Straddle", "Iron Condor">> ELSE <<>>)
    \o (IF v.oneMonth < 2000 THEN <<"Long Straddle">> ELSE <<>>)
    \o (IF 10 * v.oneWeek > 12 * v.threeMonths THEN <<"Calendar Spread">> ELSE <<>>)
    \o <<"Cash-Secured Put">>

HasStrategy(recs, name) == \E i \in 1..Len(recs) : recs[i].strategy = name

\* C4: generateOptionRecommendations returns Short Straddle then Iron Condor
\* iff oneMonth > 30, Long Straddle iff oneMonth < 20, Calendar Spread iff
\* oneWeek > 1.2 * threeMonths, and Cash-Secured Put always and last; so the
\* result has 1 to 5 entries and never both straddles.
C4_OptionRecommendations ==
    optCalled =>
        /\ StrategiesOf(optRecs) = ExpectedOptionStrategies(optArgs.v)
        /\ Len(optRecs) >= 1 /\ Len(optRecs) <= 5
        /\ optRecs[Len(optRecs)].strategy = "Cash-Secured Put"
        /\ ~(HasStrategy(optRecs, "Short Straddle") /\ HasStrategy(optRecs, "Long Straddle"))

\* High one-month volatility with a one-week spike: the longest result.
C4_Witness ==
    /\ optCalled
    /\ StrategiesOf(optRecs) =
          <<"Short Straddle", "Iron Condor", "Calendar Spread", "Cash-Secured Put">>

(***************************************************************************)
(* Claims about getMarketHours                                             *)
(***************************************************************************)

\* The New York wall clock at the instant, as minutes since Sunday 00:00.
NyWallClock == (hoursNow + NyOffset(hoursZone) + MinutesPerWeek) % MinutesPerWeek

\* C9: getMarketHours reports isOpen exactly when the New York time is on
\* Monday..Friday with minute-of-day m, 570 <= m < 960; nextOpen, nextClose
\* and timezone are "09:30 EST", "16:00 EST" and "EST" at every instant.
C9_MarketHours ==
    hoursCalled =>
        /\ marketHours.isOpen =
             (/\ NyWallClock \div 1440 \in 1..5
              /\ NyWallClock % 1440 >= 570
              /\ NyWallClock % 1440 < 960)
        /\ marketHours.nextOpen = "09:30 EST"
        /\ marketHours.nextClose = "16:00 EST"
        /\ marketHours.timezone = "EST"

\* Friday 15:59 New York time under daylight-saving time: open.
C9_Witness ==
    /\ hoursCalled
    /\ hoursZone = "EDT"
    /\ NyWallClock = 5 * 1440 + 959
    /\ marketHours.isOpen

(***************************************************************************)
(* Claims about calculateSentiment                                         *)
(***************************************************************************)

\* The signals as the claim lists them.
C10_Total(s, t) == 4 + (IF t.rsi > 3000 /\ t.rsi < 7000 THEN 1 ELSE 0)

C10_Bullish(s, t) ==
      (IF s.change > 0 THEN 1 ELSE 0)
    + (IF t.rsi > 3000 /\ t.rsi < 7000 /\ t.rsi > 5000 THEN 1 ELSE 0)
    + (IF JsGt(<<s.price>>, t.sma20) THEN 1 ELSE 0)
    + (IF JsGt(<<s.price>>, t.ema12) THEN 1 ELSE 0)
    + (IF JsGt(t.macd, t.macdSignal) THEN 1 ELSE 0)

\* C10: calculateSentiment yields one of Bullish, Bearish, Neutral with an
\* integer score in 0..100: Neutral and 50 when a prop is missing; otherwise
\* score = round(100 * bullishSignals / totalSignals) over the price-change,
\* RSI (counted only when 30 < rsi < 70), SMA20, EMA12 and MACD signals, and
\* the label is Bullish iff score >= 65, Bearish iff score <= 35, Neutral
\* otherwise.
C10_Sentiment ==
    sentCalled =>
        /\ sentResult.label \in {"Bullish", "Bearish", "Neutral"}
        /\ sentResult.score \in 0..100
        /\ (sentStock = <<>> \/ sentTech = <<>>) =>
              (sentResult.label = "Neutral" /\ sentResult.score = 50)
        /\ (sentStock # <<>> /\ sentTech # <<>>) =>
              LET b == C10_Bullish(sentStock[1], sentTech[1])
                  t == C10_Total(sentStock[1], sentTech[1])
              IN  /\ 2 * t * sentResult.score <= 200 * b + t
                  /\ 2 * t * (sentResult.score + 1) > 200 * b + t
        /\ (sentResult.label = "Bullish") = (sentResult.score >= 65)
        /\ (sentResult.label = "Bearish") = (sentResult.score <= 35)

\* The page's case: both props present, the technical object without sma20,
\* ema12, macd and macdSignal, a rising price and an RSI of 50.01: two bullish
\* signals of five, score 40, Neutral.
C10_Witness ==
    /\ sentCalled
    /\ sentStock # <<>> /\ sentTech # <<>>
    /\ sentTech[1].sma20 = <<>> /\ sentTech[1].ema12 = <<>>
    /\ sentTech[1].macd = <<>> /\ sentTech[1].macdSignal = <<>>
    /\ sentResult.score = 40
    /\ sentResult.label = "Neutral"

(***************************************************************************)
(* Claims about the client data shim                                       *)
(***************************************************************************)

\* The failures the claim lists: the request throws, the status is not OK,
\* the body does not parse, or (fetchStockData) the body has a truthy error.
C1_Failure ==
    \/ fetchNet.kind = "throws"
    \/ ~fetchNet.ok
    \/ ~fetchNet.parses
    \/ (fetchFn = "stock" /\ fetchNet.json # <<>> /\ Truthy(fetchNet.json[1].error))

C1_Fallback ==
    IF fetchFn = "stock"
    THEN generateFallbackStockData(fetchSymbol, fetchDraws[1], fetchNow)
    ELSE generateMockVolatilityData(fetchSymbol, fetchDraws[1])

\* C1: fetchStockData and fetchHistoricalVolatility never reject; on a thrown
\* request, a non-OK status, an unparseable body or (fetchStockData) a truthy
\* error field they resolve to locally generated fallback data whose symbol
\* is the argument upper-cased; only an OK response without an error field
\* resolves to the response body unchanged.
C1_FetchNeverRejects ==
    (fetchFn \in {"stock", "volatility"} /\ fetchResults # <<>>) =>
        LET res == fetchResults[1]
        IN  /\ res.state = "fulfilled"
            /\ C1_Failure =>
                  /\ fetchDraws # <<>>
                  /\ res.value = <<C1_Fallback>>
                  /\ res.value[1].symbol = toUpperCase(fetchSymbol)
            /\ (~C1_Failure /\ fetchNet.json # <<>>) =>
                  (res.value = fetchNet.json /\ fetchDraws = <<>>)
            /\ (fetchDraws = <<>>) => ~C1_Failure

\* A 200 response carrying {error: ...} for a lower-case symbol: the quote
\* resolved is the fallback for the upper-cased symbol.
C1_Witness ==
    /\ fetchFn = "stock"
    /\ fetchResults # <<>>
    /\ fetchSymbol = <<"a", "a", "p", "l">>
    /\ fetchNet.kind = "response" /\ fetchNet.ok /\ fetchNet.parses
    /\ fetchNet.json = <<ErrorBody>>
    /\ fetchResults[1].state = "fulfilled"
    /\ fetchResults[1].value[1].symbol = <<"A", "A", "P", "L">>

\* C6: for the same upstream quote, two calls of fetchTechnicalIndicators
\* return identical rsi, ema9, ema20, adx, vwap, sma50 and sma200.
C6_SameIndicators ==
    (fetchFn = "technical" /\ Len(fetchResults) >= 2) =>
        LET a == fetchResults[1].value[1]
            b == fetchResults[2].value[1]
        IN  /\ a.rsi = b.rsi /\ a.ema9 = b.ema9 /\ a.ema20 = b.ema20
            /\ a.adx = b.adx /\ a.vwap = b.vwap
            /\ a.sma50 = b.sma50 /\ a.sma200 = b.sma200

(***************************************************************************)
(* Claims about the quote route                                            *)
(***************************************************************************)

RouteRequests == {"today", "yesterday", "quote", "trade"}

\* C2 as stated: when the credentials are missing or any of the four broker
\* requests fails, by a thrown error or a non-OK status, the response is
\* HTTP 200 with the mock quote for the upper-cased symbol, never a partly
\* real quote and never an error response.
C2_AnyFailureGivesMock ==
    (/\ routePc = "done"
     /\ \/ ~routeCreds
        \/ \E q \in RouteRequests : routeLog[q] \in {"throws", "status"})
    => /\ routeResponse.status = 200
       /\ routeResponse.branch = "mock"
       /\ routeResponse.body[1].symbol = toUpperCase(routeParam)

\* C2 as amended: the response is always HTTP 200 with a quote for the
\* upper-cased symbol; it is the mock quote exactly when the credentials are
\* missing, a request throws (or its OK body does not parse), or the
\* latest-quote request answers non-OK.  A non-OK answer to the today's-bar,
\* yesterday's-bar or latest-trade request gives no fallback: the quote is
\* assembled from the other answers.
C2_FallbackCases ==
    routePc = "done" =>
        /\ routeResponse.status = 200
        /\ routeResponse.body[1].symbol = toUpperCase(routeParam)
        /\ (routeResponse.branch = "mock") =
              \/ ~routeCreds
              \/ \E q \in RouteRequests : routeLog[q] \in {"throws", "badjson"}
              \/ routeLog.quote = "status"
        /\ (routeResponse.branch = "real") =
              /\ routeCreds
              /\ \A q \in RouteRequests : routeLog[q] \in {"ok", "status"}
              /\ routeLog.quote = "ok"
        /\ (routeResponse.branch = "real") => routeResponse.body[1].marketCap = <<>>
        /\ (routeResponse.branch = "mock") => routeResponse.body[1].marketCap # <<>>

\* Today's bar, yesterday's bar and the latest trade all answer non-OK, the
\* quote arrives: a real quote at the bid/ask midpoint is returned.
C2_Witness ==
    /\ routePc = "done"
    /\ routeLog = [today |-> "status", yesterday |-> "status", quote |-> "ok",
                   trade |-> "status"]
    /\ routeResponse.status = 200
    /\ routeResponse.branch = "real"
    /\ routeResponse.body[1].price = 23110
    /\ routeParam = <<"T", "s", "l", "a">>


\* C7: whatever symbols were selected, however auto-refresh was toggled and
\* whichever timers ticked, at most one auto-refresh interval timer is active,
\* one is active exactly when a symbol is selected and auto-refresh is on, and
\* the symbol an active timer refetches on its tick is the selected symbol.
C7_AutoRefreshTimer ==
    /\ Len(timers) <= 1
    /\ (Len(timers) = 1) = (selectedSymbol # <<>> /\ autoRefresh)
    /\ \A i \in 1..Len(timers) : timers[i].symbol = selectedSymbol

\* A second symbol was selected after a first, auto-refresh is on, and a tick
\* of the timer has a fetch pending.
C7_Witness ==
    /\ Len(timers) = 1
    /\ autoRefresh
    /\ stockData # <<>> /\ stockData[1].symbol # selectedSymbol
    /\ \E call \in BagToSet(inflight) : call.origin = "tick"

ManualRefreshStep == ~refreshing /\ refreshing'

\* C8: a manual refresh with no symbol selected starts no fetch and leaves
\* selectedSymbol, stockData, technicalData, loading, error, lastUpdate and
\* isConnected as they were; with a symbol selected it starts exactly one
\* handleSymbolSelect, for that symbol, and leaves selectedSymbol and
\* autoRefresh as they were.
C8_ManualRefresh ==
    [][ManualRefreshStep =>
         IF selectedSymbol = <<>>
         THEN /\ inflight' = inflight
              /\ UNCHANGED <<selectedSymbol, stockData, technicalData, loading, error,
                             lastUpdate, isConnected>>
         ELSE /\ inflight' = inflight (+) SetToBag({[symbol |-> selectedSymbol,
                                                      origin |-> "manual"]})
              /\ UNCHANGED <<selectedSymbol, autoRefresh>>]_vars

\* A manual refresh of the selected symbol is awaiting its fetches.
C8_Witness ==
    /\ refreshing
    /\ selectedSymbol # <<>>
    /\ BagIn([symbol |-> selectedSymbol, origin |-> "manual"], inflight)

\* C11: once no fetch is in flight, the displayed stockData is the data
\* fetched for the selected symbol: a late response for an earlier selection
\* never overwrites the data of the most recent selection.
C11_NoStaleData ==
    (inflight = EmptyBag /\ selectedSymbol # <<>>) =>
        (stockData # <<>> /\ stockData[1].symbol = selectedSymbol)

\* C12: loading is true in every state with a handleSymbolSelect fetch in
\* flight and false in every state with none.
C12_LoadingWhileInFlight == loading = (inflight # EmptyBag)

\* C13: an active auto-refresh timer has a period of 15 seconds while the
\* market is open and 60 seconds while it is closed, also after the market
\* opens or closes with the symbol and auto-refresh unchanged.
C13_TimerPeriod ==
    \A i \in 1..Len(timers) :
        timers[i].interval = IF MarketOpenAt(pageNow) THEN 15000 ELSE 60000

\* x within [lo/1000, hi/1000] x price, one cent of rounding allowed.
InBand(x, lo, hi, price) == 1000 * (x + 1) >= lo * price /\ 1000 * (x - 1) <= hi * price

\* C14: after a completed handleSymbolSelect the stored indicators lie in
\* their bands around the stored stockData.price: vwap 0.5%, ema9 1%,
\* ema20 1.5%, sma50 3%, sma200 10%.
C14_IndicatorsNearPrice ==
    (stockData # <<>> /\ technicalData # <<>>) =>
        LET price == stockData[1].price
            t == technicalData[1]
        IN  /\ InBand(t.vwap, 995, 1005, price)
            /\ InBand(t.ema9, 990, 1010, price)
            /\ InBand(t.ema20, 985, 1015, price)
            /\ InBand(t.sma50, 970, 1030, price)
            /\ InBand(t.sma200, 900, 1100, price)

NumLe(a, b) == a = b \/ NumLt(a, b)

\* C15: calculateRSI returns 50 for fewer than period + 1 prices; otherwise
\* a defined number in [0, 100] equal to 100 - 100 / (1 + avgGain / avgLoss)
\* over the last `period` changes, also with no losing change and for a flat
\* series.
C15_RsiDefined ==
    (calcFn = "rsi" /\ calcCalled) =>
        IF Len(calcPrices) < calcPeriod + 1 THEN calcResult = Num(50)
        ELSE LET gl == RsiGainsLosses(calcPrices, calcPeriod)
             IN  /\ calcResult.k = "fin"
                 /\ NumLe(Num(0), calcResult) /\ NumLe(calcResult, Num(100))
                 /\ calcResult = Fin(100 * gl.gains, gl.gains + gl.losses)

\* The directional index is 0 or undefined.
NoDirection(x) == x.k = "nan" \/ (x.k = "fin" /\ x.n = 0)

\* C16: with insufficient input each calculator returns its neutral default:
\* RSI 50 (fewer than period + 1 prices), SMA 0 (fewer than period prices),
\* EMA the last price or 0 for an empty array (fewer than period prices),
\* VWAP 0 (no closes) or the last close (total volume 0), ADX 20 (fewer than
\* period + 1 highs, or a directional index of 0 or undefined), volatility 0
\* (fewer than 2 prices).
C16_NeutralDefaults ==
    calcCalled =>
        LET n == Len(calcPrices)
            m == Len(calcBars)
        IN  /\ (calcFn = "rsi" /\ n < calcPeriod + 1) => calcResult = Num(50)
            /\ (calcFn = "sma" /\ n < calcPeriod) => calcResult = Num(0)
            /\ (calcFn = "ema" /\ n < calcPeriod) =>
                   calcResult = IF n = 0 THEN Num(0) ELSE Num(calcPrices[n])
            /\ (calcFn = "vwap" /\ m = 0) => calcResult = Num(0)
            /\ (calcFn = "vwap" /\ m > 0 /\ \A i \in 1..m : calcBars[i].v = 0) =>
                   calcResult = Num(calcBars[m].c)
            /\ (calcFn = "adx" /\ m < calcPeriod + 1) => calcResult = Num(20)
            /\ (calcFn = "adx" /\ m >= calcPeriod + 1
                  /\ NoDirection(DirectionalIndex(Field(calcBars, "h"), Field(calcBars, "l"),
                                                  Field(calcBars, "c"), calcPeriod))) =>
                   calcResult = Num(20)
            /\ (calcFn = "volatility" /\ n < 2) => calcResult = Num(0)

\* calculateADX was applied to enough flat bars: the directional index is
\* undefined and the default was returned.
C16_Witness ==
    /\ calcFn = "adx" /\ calcCalled
    /\ Len(calcBars) >= calcPeriod + 1
    /\ DirectionalIndex(Field(calcBars, "h"), Field(calcBars, "l"),
                        Field(calcBars, "c"), calcPeriod).k = "nan"
    /\ calcResult = Num(20)

\* The entries a step puts in front of triggeredAlerts.
AddedEntries ==
    IF Len(triggeredAlerts') > Len(triggeredAlerts)
    THEN SubSeq(triggeredAlerts', 1, Len(triggeredAlerts') - Len(triggeredAlerts))
    ELSE <<>>

\* The alert's condition holds for the data: the watched value is defined
\* and on the stated side of the threshold (within 1% for "equals").
ConditionHolds(a, data) ==
    LET cur == IF a.type = "price" THEN <<data.price>>
               ELSE IF a.indicator = "rsi" THEN <<data.rsi>> ELSE <<>>
    IN  /\ cur # <<>>
        /\ \/ a.condition \in {"above", "crosses_above"} /\ cur[1] > a.value
           \/ a.condition \in {"below", "crosses_below"} /\ cur[1] < a.value
           \/ a.condition = "equals" /\ 100 * (cur[1] - a.value) < a.value
                                     /\ 100 * (a.value - cur[1]) < a.value

C17_Step ==
    /\ \A j \in 1..Len(AddedEntries) :
         /\ \E i \in 1..Len(alerts) :
              /\ alerts[i].id = AddedEntries[j].alert
              /\ alerts[i].isActive /\ ~alerts[i].triggered
              /\ ConditionHolds(alerts[i], alertData)
              /\ i <= Len(alerts') /\ alerts'[i].id = alerts[i].id /\ alerts'[i].triggered
         /\ \A j2 \in 1..Len(AddedEntries) :
              AddedEntries[j2].alert = AddedEntries[j].alert => j2 = j
    /\ \A i \in 1..Len(alerts), i2 \in 1..Len(alerts') :
         alerts[i].id = alerts'[i2].id =>
            /\ (alerts[i].triggered /\ ~alerts'[i2].triggered) =>
                   alerts'[i2].isActive # alerts[i].isActive
            /\ (alerts'[i2].isActive # alerts[i].isActive) => ~alerts'[i2].triggered

\* C17: an alert adds an entry to triggeredAlerts only when it is active, not
\* yet triggered and its condition holds for the current data, and is then
\* marked triggered; a triggered or a paused alert adds none; triggered is
\* reset only by toggleAlert, which flips isActive and clears triggered.
C17_AlertArming == [][C17_Step]_vars

\* An alert that triggered, was paused and resumed, and triggered again.
C17_Witness ==
    \E i \in 1..Len(alerts) :
        /\ alerts[i].isActive /\ alerts[i].triggered
        /\ Len(triggeredAlerts) >= 2
        /\ triggeredAlerts[1].alert = alerts[i].id
        /\ triggeredAlerts[2].alert = alerts[i].id

C18_Step ==
    \A j \in 1..Len(AddedEntries) :
        \A i \in 1..Len(alerts) :
            alerts[i].id = AddedEntries[j].alert =>
               /\ alerts[i].condition = "crosses_above" =>
                     /\ alertData.price > alerts[i].value
                     /\ alertPrev # <<>> /\ alertPrev[1].price <= alerts[i].value
               /\ alerts[i].condition = "crosses_below" =>
                     /\ alertData.price < alerts[i].value
                     /\ alertPrev # <<>> /\ alertPrev[1].price >= alerts[i].value

\* C18: a "crosses_above" alert triggers only where the value is above the
\* threshold and the previous observation was at or below it, a
\* "crosses_below" alert only where the value is below and the previous
\* observation was at or above; an alert created with the value already
\* beyond the threshold waits for a crossing.
C18_CrossingOnly == [][C18_Step]_vars

\* C19: whatever data updates, enable/disable toggles and dismissals
\* happened, the list holds at most 10 notifications and no two of them share
\* type and title (so an update never adds one whose type and title are in
\* the list).
C19_NotificationList ==
    /\ Len(notifications) <= 10
    /\ \A i, j \in 1..Len(notifications) :
         (notifications[i].type = notifications[j].type
            /\ notifications[i].title = notifications[j].title) => i = j

\* A notification was dismissed and a later update added one of the same
\* type and title again.
C19_Witness ==
    /\ notifDismissed # <<>>
    /\ Len(notifications) >= 4
    /\ notifications[Len(notifications)].id.prefix = notifDismissed[1].prefix

\* C20: every notification held refers to the symbol currently shown, also
\* after the symbol of stockData changed and the effect has run.
C20_CurrentSymbol ==
    (notifEnabled /\ notifStock # <<>>) =>
        \A i \in 1..Len(notifications) : notifications[i].symbol = notifStock[1].symbol

\* The state part of C21: the list with id "default" exists and
\* activeWatchlist is the id of one of the lists.
C21_DefaultAndActiveExist ==
    /\ "default" \in WatchIds(watchlists)
    /\ activeWatchlist \in WatchIds(watchlists)

\* The step part of C21, by the handler called: deleteWatchlist on "default"
\* changes nothing; deleteWatchlist on the active list, when that is not the
\* default one, removes it and makes "default" active; createWatchlist with
\* a name that is not blank appends an empty list and makes it active.
C21_Step ==
    LET call == watchCall'[1] IN
    /\ (call.op = "deleteWatchlist" /\ call.arg = "default") =>
          /\ watchlists' = watchlists
          /\ activeWatchlist' = activeWatchlist
    /\ (call.op = "deleteWatchlist" /\ call.arg # "default"
          /\ call.arg = call.active /\ call.active = activeWatchlist) =>
          /\ call.arg \notin WatchIds(watchlists')
          /\ activeWatchlist' = "default"
    /\ (call.op = "createWatchlist" /\ ~TrimIsEmpty(call.arg)) =>
          /\ Len(watchlists') = Len(watchlists) + 1
          /\ SubSeq(watchlists', 1, Len(watchlists)) = watchlists
          /\ watchlists'[Len(watchlists')].name = call.arg
          /\ watchlists'[Len(watchlists')].items = <<>>
          /\ activeWatchlist' = watchlists'[Len(watchlists')].id

\* C21: after any sequence of createWatchlist, deleteWatchlist, tab or
\* selector changes, addToWatchlist, removeFromWatchlist and toggleAlerts,
\* the watchlist with id "default" exists and activeWatchlist is the id of an
\* existing watchlist; deleteWatchlist on "default" is a no-op, deleting the
\* active non-default watchlist makes "default" active, and createWatchlist
\* with a non-blank name makes the new list active.
C21_WatchlistInvariant ==
    /\ []C21_DefaultAndActiveExist
    /\ [][C21_Step]_vars

\* A created list was active when deleteWatchlist removed it and "default" is
\* active again, with items of the default list added, removed or toggled
\* before.
C21_Witness ==
    /\ watchCall # <<>>
    /\ watchCall[1].op = "deleteWatchlist"
    /\ watchCall[1].arg = watchCall[1].active
    /\ watchCall[1].arg # "default"
    /\ activeWatchlist = "default"
    /\ watchlists[1].id = "default"
    /\ watchlists[1].items # WatchlistsInitial[1].items
====
